---------------------------- MODULE Spec2Model ----------------------------
(***************************************************************************)
(* A model of sammi: the layered attribute schemas of CdfAttributeManager  *)
(* (cdf_attribute_manager.py) and SWxSchema (schema.py), and the           *)
(* resolution of stored attribute values against them.                     *)
(*                                                                         *)
(* Python values are tagged records, so that the type tests of _merge      *)
(* (isinstance dict / list) can be modelled:                               *)
(*   Str(s)  a string      Bool(b)  a bool      None  the value None       *)
(*   Dict(f) a dict, f a function from string keys to values               *)
(*   List(q) a list, q a sequence of strings                               *)
(* Every layer is parsed afresh from its file on each load, so the         *)
(* references that _merge shares between a layer and the merged dict are   *)
(* never observable and dicts are modelled by value.                       *)
(***************************************************************************)
EXTENDS Integers, Sequences, FiniteSets, TLC

VARIABLES
    pc,                     \* "new": no object yet; "ready": __init__ returned; "failed": __init__ raised
    args,                   \* the arguments __init__ was called with
    _global_attr_schema,    \* self._global_attr_schema (contents of the dict)
    _variable_attr_schema,  \* self._variable_attr_schema (contents of the dict)
    _global_attributes,     \* self._global_attributes / SWxSchema._default_global_attributes
    _variable_attributes,   \* self._variable_attributes
    call,                   \* the last public call and its arguments
    result,                 \* what the last call returned
    error,                  \* the exception the last call raised, or "none"
    ncalls                  \* number of load/add calls made so far

vars == <<pc, args, _global_attr_schema, _variable_attr_schema,
          _global_attributes, _variable_attributes, call, result, error, ncalls>>

---------------------------------------------------------------------------
(* Bounds of the model *)

\* longest list of extra schema layers handed to __init__
MaxLayers == 2
\* most load_* / add_global_attribute calls in one behaviour
MaxCalls == 2

---------------------------------------------------------------------------
(* Python values *)

Str(s) == [k |-> "str", s |-> s]
Bool(b) == [k |-> "bool", b |-> b]
None == [k |-> "none"]
Dict(f) == [k |-> "dict", d |-> f]
List(q) == [k |-> "list", l |-> q]

\* the dict {}
EmptyDict == <<>>

\* isinstance(x, dict), isinstance(x, list)
IsDict(x) == x.k = "dict"
IsList(x) == x.k = "list"

\* bool(x) for the values of the model
Truthy(x) ==
    CASE x.k = "bool" -> x.b
      [] x.k = "none" -> FALSE
      [] x.k = "str" -> x.s # ""
      [] x.k = "list" -> x.l # <<>>
      [] x.k = "dict" -> DOMAIN x.d # {}

\* m in key, for two strings
Contains(m, key) ==
    \E i \in 1..(Len(key) - Len(m) + 1) : SubSeq(key, i, i + Len(m) - 1) = m

\* the set of elements of a sequence
Range(q) == {q[i] : i \in 1..Len(q)}

\* the sequence q reversed
Reverse(q) == [i \in 1..Len(q) |-> q[Len(q) + 1 - i]]

---------------------------------------------------------------------------
(* _merge *)

\* A slip _merge could have: a shared scalar keeps the base value.
RECURSIVE KeepBaseMerge(_, _)
KeepBaseMerge(base_layer, new_layer) ==
    [key \in DOMAIN base_layer \cup DOMAIN new_layer |->
        IF key \notin DOMAIN new_layer THEN base_layer[key]
        ELSE IF key \in DOMAIN base_layer THEN
            IF IsDict(base_layer[key]) /\ IsDict(new_layer[key])
            THEN Dict(KeepBaseMerge(base_layer[key].d, new_layer[key].d))
            ELSE IF IsList(base_layer[key]) /\ IsList(new_layer[key])
            THEN List(base_layer[key].l \o new_layer[key].l)
            ELSE base_layer[key]
        ELSE new_layer[key]]

\* A slip _merge could have: dict.update(), a shared key takes the new value whole.
UpdateMerge(base_layer, new_layer) ==
    [key \in DOMAIN base_layer \cup DOMAIN new_layer |->
        IF key \in DOMAIN new_layer THEN new_layer[key] ELSE base_layer[key]]

\* A slip _merge could have: a sequence is extended only by the elements it
\* does not have yet.
RECURSIVE SkipKnownMerge(_, _)
SkipKnownMerge(base_layer, new_layer) ==
    [key \in DOMAIN base_layer \cup DOMAIN new_layer |->
        IF key \notin DOMAIN new_layer THEN base_layer[key]
        ELSE IF key \in DOMAIN base_layer THEN
            IF IsDict(base_layer[key]) /\ IsDict(new_layer[key])
            THEN Dict(SkipKnownMerge(base_layer[key].d, new_layer[key].d))
            ELSE IF IsList(base_layer[key]) /\ IsList(new_layer[key])
            THEN LET unknown(e) == e \notin Range(base_layer[key].l)
                 IN  List(base_layer[key].l \o SelectSeq(new_layer[key].l, unknown))
            ELSE IF base_layer[key] # new_layer[key]
            THEN new_layer[key]
            ELSE base_layer[key]
        ELSE new_layer[key]]

\* A slip _merge could have: strings are taken for sequences and joined.
RECURSIVE JoinStringsMerge(_, _)
JoinStringsMerge(base_layer, new_layer) ==
    [key \in DOMAIN base_layer \cup DOMAIN new_layer |->
        IF key \notin DOMAIN new_layer THEN base_layer[key]
        ELSE IF key \in DOMAIN base_layer THEN
            IF IsDict(base_layer[key]) /\ IsDict(new_layer[key])
            THEN Dict(JoinStringsMerge(base_layer[key].d, new_layer[key].d))
            ELSE IF IsList(base_layer[key]) /\ IsList(new_layer[key])
            THEN List(base_layer[key].l \o new_layer[key].l)
            ELSE IF base_layer[key].k = "str" /\ new_layer[key].k = "str"
            THEN Str(base_layer[key].s \o new_layer[key].s)
            ELSE IF base_layer[key] # new_layer[key]
            THEN new_layer[key]
            ELSE base_layer[key]
        ELSE new_layer[key]]

\* CdfAttributeManager._merge(base_layer, new_layer): the dict base_layer holds
\* (and the call returns) afterwards.  The loop treats each key of new_layer on
\* its own, so the result is given key by key.
RECURSIVE CdfAttributeManager_merge(_, _)
CdfAttributeManager_merge(base_layer, new_layer) ==
    [key \in DOMAIN base_layer \cup DOMAIN new_layer |->
        IF key \notin DOMAIN new_layer THEN base_layer[key]
        ELSE IF key \in DOMAIN base_layer THEN
            IF IsDict(base_layer[key]) /\ IsDict(new_layer[key])
            THEN Dict(CdfAttributeManager_merge(base_layer[key].d, new_layer[key].d))
            ELSE IF IsList(base_layer[key]) /\ IsList(new_layer[key])
            THEN List(base_layer[key].l \o new_layer[key].l)
            ELSE IF base_layer[key] # new_layer[key]
            THEN new_layer[key]
            ELSE base_layer[key]
        ELSE new_layer[key]]

\* SWxSchema._merge(base_layer, new_layer).  The list test is an `if`, not an
\* `elif`: after two dicts were merged in place, the scalar branch still runs
\* and compares the merged dict with the new one.
RECURSIVE SWxSchema_merge(_, _)
SWxSchema_merge(base_layer, new_layer) ==
    [key \in DOMAIN base_layer \cup DOMAIN new_layer |->
        IF key \notin DOMAIN new_layer THEN base_layer[key]
        ELSE IF key \in DOMAIN base_layer THEN
            LET merged == IF IsDict(base_layer[key]) /\ IsDict(new_layer[key])
                          THEN Dict(SWxSchema_merge(base_layer[key].d, new_layer[key].d))
                          ELSE base_layer[key]
            IN  IF IsList(merged) /\ IsList(new_layer[key])
                THEN List(merged.l \o new_layer[key].l)
                ELSE IF merged # new_layer[key]
                THEN new_layer[key]
                ELSE merged
        ELSE new_layer[key]]

\* self._merge of the class cls
Merge(cls, base_layer, new_layer) ==
    IF cls = "SWxSchema"
    THEN SWxSchema_merge(base_layer, new_layer)
    ELSE CdfAttributeManager_merge(base_layer, new_layer)

---------------------------------------------------------------------------
(* Schema layer files *)

\* a global schema entry {description, default, required}
GlobalEntry(description, default, required) ==
    Dict([description |-> Str(description), default |-> default,
          required |-> Bool(required)])

\* a variable schema entry {description, required, valid_values, alternate}
VariableEntry(description, required, valid_values) ==
    Dict([description |-> Str(description), required |-> Bool(required),
          valid_values |-> valid_values, alternate |-> None])

\* sammi/data/default_global_cdf_attrs_schema.yaml, cut to four entries: two
\* optional ones without default, a required one without default and a required
\* one with a default
DefaultGlobalLayer ==
    [DOI |-> GlobalEntry("doi", None, FALSE),
     Data_type |-> GlobalEntry("data type", None, FALSE),
     Descriptor |-> GlobalEntry("descriptor\n", None, TRUE),
     Project |-> GlobalEntry("project", Str("p0"), TRUE)]

\* sammi/data/default_variable_cdf_attrs_schema.yaml, cut to seven entries
DefaultVariableLayer ==
    [attribute_key |-> Dict(
        [CATDESC |-> VariableEntry(" catdesc\n", TRUE, None),
         DEPEND_0 |-> VariableEntry("depend 0", TRUE, None),
         DEPEND_i |-> VariableEntry("depend i", FALSE, None),
         LABL_PTR_i |-> VariableEntry("labl ptr i", FALSE, None),
         REPRESENTATION_i |-> VariableEntry("representation i", FALSE, None),
         SI_CONVERSION |-> VariableEntry("si conversion", FALSE, None),
         VAR_TYPE |-> VariableEntry("var type", TRUE,
                                    List(<<"data", "support_data", "metadata">>))]),
     data |-> List(<<"CATDESC", "DEPEND_0", "VAR_TYPE">>),
     support_data |-> List(<<"CATDESC", "VAR_TYPE">>),
     metadata |-> List(<<"CATDESC", "VAR_TYPE">>)]

\* the global schema layer files a caller may pass
GlobalLayerFiles ==
    {"global_test.yaml", "global_b.yaml", "global_c.yaml", "global_d.yaml"}

\* _load_yaml_data(file_path) of a global schema layer file.  global_test.yaml
\* is the layer of test_cdf_manager_custom_layers; global_b.yaml overrides
\* fields of two default entries; global_c.yaml adds an entry without
\* `default`; global_d.yaml is a small schema of its own.
GlobalLayerData(file_path) ==
    CASE file_path = "global_test.yaml" ->
            [test_attribute |-> GlobalEntry("This is a test attribute", None, TRUE),
             Data_type |-> Dict([required |-> Bool(TRUE)])]
      [] file_path = "global_b.yaml" ->
            [Data_type |-> Dict([description |-> Str("data type b"),
                                 required |-> Bool(FALSE)]),
             Project |-> Dict([default |-> None])]
      [] file_path = "global_c.yaml" ->
            [new_attr |-> Dict([required |-> Bool(TRUE)])]
      [] file_path = "global_d.yaml" ->
            [Mission |-> GlobalEntry("mission", Str("m0"), TRUE),
             Data_type |-> GlobalEntry("data type d", Str("dtd"), FALSE)]

\* the variable schema layer files a caller may pass
VariableLayerFiles == {"variable_test.yaml", "variable_b.yaml", "variable_c.yaml"}

\* _load_yaml_data(file_path) of a variable schema layer file.
\* variable_test.yaml is the layer of test_cdf_manager_custom_layers;
\* variable_b.yaml makes a family placeholder required and puts UNITS, which
\* it does not describe, in a bucket; variable_c.yaml is a small schema of its
\* own.
VariableLayerData(file_path) ==
    CASE file_path = "variable_test.yaml" ->
            [attribute_key |-> Dict(
                [test_attribute |-> VariableEntry("This is a test attribute", TRUE, None),
                 SI_CONVERSION |-> VariableEntry("The conversion factor to SI units.",
                                                 TRUE, None)]),
             data |-> List(<<"test_attribute", "SI_CONVERSION">>),
             support_data |-> List(<<"test_attribute", "SI_CONVERSION">>),
             metadata |-> List(<<"test_attribute">>)]
      [] file_path = "variable_b.yaml" ->
            [attribute_key |-> Dict(
                [DEPEND_i |-> Dict([required |-> Bool(TRUE)]),
                 SI_CONVERSION |-> Dict([required |-> Bool(FALSE)])]),
             data |-> List(<<"DEPEND_i", "UNITS">>)]
      [] file_path = "variable_c.yaml" ->
            [attribute_key |-> Dict(
                [CATDESC |-> VariableEntry("catdesc c", FALSE, None),
                 LABL_PTR_i |-> VariableEntry("labl ptr c", TRUE, None),
                 UNITS |-> VariableEntry("units", TRUE, None)]),
             data |-> List(<<"UNITS">>),
             support_data |-> List(<<>>),
             metadata |-> List(<<"UNITS", "CATDESC">>)]

\* the lists of at most n of the given files, and None
LayerLists(files, n) ==
    {None} \cup {List(q) : q \in UNION {[1..m -> files] : m \in 0..n}}

---------------------------------------------------------------------------
(* __init__ *)

\* A slip the input validation could have: only a missing (None) list is refused.
OnlyNoneInvalid(use_defaults, global_schema_layers, variable_schema_layers) ==
    /\ ~Truthy(use_defaults)
    /\ (global_schema_layers = None \/ variable_schema_layers = None)

\* CdfAttributeManager.__init__, input validation: the condition of the raise
CdfAttributeManager_invalid(use_defaults, global_schema_layers, variable_schema_layers) ==
    /\ ~Truthy(use_defaults)
    /\ \/ ~Truthy(global_schema_layers)
       \/ ~Truthy(variable_schema_layers)
       \/ Len(global_schema_layers.l) = 0
       \/ Len(variable_schema_layers.l) = 0

\* SWxSchema.__init__, input validation: the condition of the raise
SWxSchema_invalid(use_defaults, global_schema_layers, variable_schema_layers) ==
    /\ ~Truthy(use_defaults)
    /\ \/ global_schema_layers = None
       \/ variable_schema_layers = None
       \/ Len(global_schema_layers.l) = 0
       \/ Len(variable_schema_layers.l) = 0

\* the layers __init__ merges, in order: the default layer if use_defaults,
\* then the data of each file of schema_layers
GlobalLayers(use_defaults, schema_layers) ==
    (IF Truthy(use_defaults) THEN <<DefaultGlobalLayer>> ELSE <<>>)
    \o (IF schema_layers = None THEN <<>>
        ELSE [i \in 1..Len(schema_layers.l) |-> GlobalLayerData(schema_layers.l[i])])

VariableLayers(use_defaults, schema_layers) ==
    (IF Truthy(use_defaults) THEN <<DefaultVariableLayer>> ELSE <<>>)
    \o (IF schema_layers = None THEN <<>>
        ELSE [i \in 1..Len(schema_layers.l) |-> VariableLayerData(schema_layers.l[i])])

\* the loop of __init__: schema = self._merge(schema, layer) for each layer in turn
RECURSIVE MergeLayers(_, _, _)
MergeLayers(cls, schema, layers) ==
    IF layers = <<>> THEN schema
    ELSE MergeLayers(cls, Merge(cls, schema, Head(layers)), Tail(layers))

\* _load_default_global_attributes / _load_default_attributes raise KeyError:
\* info["default"] of an entry that has no `default`
DefaultAttributesRaise(global_schema) ==
    \E attr_name \in DOMAIN global_schema :
        "default" \notin DOMAIN global_schema[attr_name].d

\* a slip the seeding could have: null defaults are seeded too
SeedEveryDefault(global_schema) ==
    [attr_name \in DOMAIN global_schema |-> global_schema[attr_name].d["default"]]

\* a slip _load_default_global_attributes could have: only the defaults of the
\* optional entries are seeded
SeedOptionalDefaults(global_schema) ==
    LET with_default == {n \in DOMAIN global_schema :
                            /\ global_schema[n].d["default"] # None
                            /\ ~Truthy(global_schema[n].d["required"])}
    IN  [n \in with_default |-> global_schema[n].d["default"]]

\* _load_default_global_attributes / _load_default_attributes
LoadDefaultGlobalAttributes(global_schema) ==
    [attr_name \in {n \in DOMAIN global_schema : global_schema[n].d["default"] # None}
        |-> global_schema[attr_name].d["default"]]

NoCall == [op |-> "none", arg |-> None, value |-> None, check_schema |-> TRUE]
NoArgs == [cls |-> "none", use_defaults |-> None,
           global_schema_layers |-> None, variable_schema_layers |-> None]

Init ==
    /\ pc = "new"
    /\ args = NoArgs
    /\ _global_attr_schema = EmptyDict
    /\ _variable_attr_schema = EmptyDict
    /\ _global_attributes = EmptyDict
    /\ _variable_attributes = EmptyDict
    /\ call = NoCall
    /\ result = None
    /\ error = "none"
    /\ ncalls = 0

\* cls(global_schema_layers, variable_schema_layers, use_defaults)
Construct(cls, use_defaults, global_schema_layers, variable_schema_layers) ==
    /\ pc = "new"
    /\ args' = [cls |-> cls, use_defaults |-> use_defaults,
                global_schema_layers |-> global_schema_layers,
                variable_schema_layers |-> variable_schema_layers]
    /\ call' = [op |-> "__init__", arg |-> None, value |-> None, check_schema |-> TRUE]
    /\ LET invalid ==
               IF cls = "SWxSchema"
               THEN SWxSchema_invalid(use_defaults, global_schema_layers,
                                      variable_schema_layers)
               ELSE CdfAttributeManager_invalid(use_defaults, global_schema_layers,
                                                variable_schema_layers)
           global_schema ==
               MergeLayers(cls, EmptyDict,
                           GlobalLayers(use_defaults, global_schema_layers))
           variable_schema ==
               MergeLayers(cls, EmptyDict,
                           VariableLayers(use_defaults, variable_schema_layers))
       IN  IF invalid
           THEN /\ pc' = "failed"
                /\ error' = "ValueError"
                /\ UNCHANGED <<_global_attr_schema, _variable_attr_schema,
                               _global_attributes>>
           ELSE /\ _global_attr_schema' = global_schema
                /\ _variable_attr_schema' = variable_schema
                /\ IF DefaultAttributesRaise(global_schema)
                   THEN /\ pc' = "failed"
                        /\ error' = "KeyError"
                        /\ UNCHANGED _global_attributes
                   ELSE /\ pc' = "ready"
                        /\ error' = "none"
                        /\ _global_attributes' = LoadDefaultGlobalAttributes(global_schema)
    /\ UNCHANGED <<_variable_attributes, result, ncalls>>

Classes == {"CdfAttributeManager", "SWxSchema"}
UseDefaults == {Bool(TRUE), Bool(FALSE), None}

\* construction of either class from every combination of arguments
ConstructAny ==
    \E cls \in Classes, use_defaults \in UseDefaults,
       global_schema_layers \in LayerLists(GlobalLayerFiles, MaxLayers),
       variable_schema_layers \in LayerLists(VariableLayerFiles, MaxLayers) :
        Construct(cls, use_defaults, global_schema_layers, variable_schema_layers)

SpecConstruct == Init /\ [][ConstructAny]_vars

---------------------------------------------------------------------------
(* Global attribute values: CdfAttributeManager *)

\* the global attribute files a caller may load
GlobalAttributeFiles ==
    {"imap_default_global_cdf_attrs.yaml", "imap_test_global.yaml",
     "default_global_test_cdf_attrs.yaml"}

\* _load_yaml_data(file_path) of a global attribute file: top-level values, and
\* values under the instrument id imap_test_T1_test
GlobalAttributeData(file_path) ==
    CASE file_path = "imap_default_global_cdf_attrs.yaml" ->
            [Project |-> Str("p1"), Descriptor |-> Str("des1")]
      [] file_path = "imap_test_global.yaml" ->
            [imap_test_T1_test |->
                Dict([Data_type |-> Str("T1"), Project |-> Str("pT1"),
                      Logical_source |-> Str("ls1")])]
      [] file_path = "default_global_test_cdf_attrs.yaml" ->
            [Project |-> Str("p2"), Data_type |-> Str("dt2"), bad_name |-> Str("x"),
             imap_test_T1_test |-> Dict([Descriptor |-> Str("desT1")])]

\* the instrument ids a caller may ask for: none, one the files define, one
\* that no file defines
InstrumentIds == {None, Str("imap_test_T1_test"), Str("imap_test_T3_test")}

\* the names and values a caller may hand to add_global_attribute
AddedNames == {"Project", "Descriptor", "bad_name", "imap_test_T1_test"}
AddedValues == {Str("a1"), Str("a2")}

\* load_global_attributes(file_path)
load_global_attributes(file_path) ==
    /\ pc = "ready"
    /\ args.cls = "CdfAttributeManager"
    /\ ncalls < MaxCalls
    /\ _global_attributes' =
           CdfAttributeManager_merge(_global_attributes, GlobalAttributeData(file_path))
    /\ call' = [op |-> "load_global_attributes", arg |-> Str(file_path),
                value |-> None, check_schema |-> TRUE]
    /\ result' = None
    /\ error' = "none"
    /\ ncalls' = ncalls + 1
    /\ UNCHANGED <<pc, args, _global_attr_schema, _variable_attr_schema,
                   _variable_attributes>>

\* a slip add_global_attribute could have: a name that has a value keeps it
AddKeepsExisting(attribute_name, attribute_value) ==
    /\ pc = "ready"
    /\ args.cls = "CdfAttributeManager"
    /\ ncalls < MaxCalls
    /\ _global_attributes' =
           [n \in DOMAIN _global_attributes \cup {attribute_name} |->
               IF n \in DOMAIN _global_attributes THEN _global_attributes[n]
               ELSE attribute_value]
    /\ call' = [op |-> "add_global_attribute", arg |-> Str(attribute_name),
                value |-> attribute_value, check_schema |-> TRUE]
    /\ result' = None
    /\ error' = "none"
    /\ ncalls' = ncalls + 1
    /\ UNCHANGED <<pc, args, _global_attr_schema, _variable_attr_schema,
                   _variable_attributes>>

\* add_global_attribute(attribute_name, attribute_value)
add_global_attribute(attribute_name, attribute_value) ==
    /\ pc = "ready"
    /\ args.cls = "CdfAttributeManager"
    /\ ncalls < MaxCalls
    /\ _global_attributes' =
           [n \in DOMAIN _global_attributes \cup {attribute_name} |->
               IF n = attribute_name THEN attribute_value ELSE _global_attributes[n]]
    /\ call' = [op |-> "add_global_attribute", arg |-> Str(attribute_name),
                value |-> attribute_value, check_schema |-> TRUE]
    /\ result' = None
    /\ error' = "none"
    /\ ncalls' = ncalls + 1
    /\ UNCHANGED <<pc, args, _global_attr_schema, _variable_attr_schema,
                   _variable_attributes>>

\* the exception `name in container` or `container[name]` raises, or "none":
\* container is self._global_attributes[instrument_id] in get_global_attributes
MemberError(name, container) ==
    CASE container.k = "dict" -> "none"
      [] container.k = "str" -> IF Contains(name, container.s) THEN "TypeError" ELSE "none"
      [] container.k = "list" -> IF name \in Range(container.l) THEN "TypeError" ELSE "none"
      [] OTHER -> "TypeError"

\* name in container, when that does not raise
Member(name, container) ==
    CASE container.k = "dict" -> name \in DOMAIN container.d
      [] container.k = "str" -> Contains(name, container.s)
      [] container.k = "list" -> name \in Range(container.l)
      [] OTHER -> FALSE

\* get_global_attributes, one pass of the loop: the exception it raises for
\* attr_name, or "none"
GlobalEntryError(attr_name, instrument_id) ==
    IF attr_name \in DOMAIN _global_attributes THEN "none"
    ELSE IF instrument_id # None /\ instrument_id.s \notin DOMAIN _global_attributes
    THEN "KeyError"
    ELSE IF instrument_id # None
            /\ MemberError(attr_name, _global_attributes[instrument_id.s]) # "none"
    THEN MemberError(attr_name, _global_attributes[instrument_id.s])
    ELSE IF instrument_id # None /\ Member(attr_name, _global_attributes[instrument_id.s])
    THEN "none"
    ELSE IF "required" \notin DOMAIN _global_attr_schema[attr_name].d
    THEN "KeyError"
    ELSE "none"

\* get_global_attributes: the exception the call raises, or "none".  The loop
\* stops at the first entry that raises; with the values of this model no two
\* entries raise different exceptions.
GetGlobalError(instrument_id) ==
    LET errors == {GlobalEntryError(n, instrument_id) : n \in DOMAIN _global_attr_schema}
                      \ {"none"}
    IN  IF errors = {} THEN "none"
        ELSE IF "KeyError" \in errors THEN "KeyError" ELSE "TypeError"

\* a slip get_global_attributes could have: the instrument's value is looked up
\* before the top-level one
InstrumentFirstSource(attr_name, instrument_id) ==
    IF instrument_id # None /\ instrument_id.s \in DOMAIN _global_attributes
       /\ Member(attr_name, _global_attributes[instrument_id.s])
    THEN "instrument"
    ELSE IF attr_name \in DOMAIN _global_attributes THEN "top"
    ELSE IF Truthy(_global_attr_schema[attr_name].d["required"]) THEN "missing"
    ELSE "absent"

\* a slip get_global_attributes could have: a required entry without a value is
\* left out
NoPlaceholderSource(attr_name, instrument_id) ==
    IF attr_name \in DOMAIN _global_attributes THEN "top"
    ELSE IF instrument_id # None /\ Member(attr_name, _global_attributes[instrument_id.s])
    THEN "instrument"
    ELSE "absent"

\* get_global_attributes, one pass of the loop that does not raise: the branch
\* taken for attr_name
GlobalSource(attr_name, instrument_id) ==
    IF attr_name \in DOMAIN _global_attributes THEN "top"
    ELSE IF instrument_id # None /\ Member(attr_name, _global_attributes[instrument_id.s])
    THEN "instrument"
    ELSE IF Truthy(_global_attr_schema[attr_name].d["required"])
            /\ attr_name \notin DOMAIN _global_attributes
    THEN "missing"
    ELSE "absent"

\* a slip get_global_attributes could have: the stored top-level scalars are
\* output whether or not the schema has them
OutputWithStored(instrument_id) ==
    [attr_name \in {n \in DOMAIN _global_attr_schema :
                        GlobalSource(n, instrument_id) # "absent"}
                   \cup {n \in DOMAIN _global_attributes :
                            ~IsDict(_global_attributes[n])} |->
        IF attr_name \in DOMAIN _global_attributes
        THEN _global_attributes[attr_name]
        ELSE IF GlobalSource(attr_name, instrument_id) = "instrument"
        THEN _global_attributes[instrument_id.s].d[attr_name]
        ELSE None]

\* get_global_attributes(instrument_id): the dict returned when nothing raises
GetGlobalOutput(instrument_id) ==
    [attr_name \in {n \in DOMAIN _global_attr_schema :
                        GlobalSource(n, instrument_id) # "absent"} |->
        CASE GlobalSource(attr_name, instrument_id) = "top" ->
                _global_attributes[attr_name]
          [] GlobalSource(attr_name, instrument_id) = "instrument" ->
                _global_attributes[instrument_id.s].d[attr_name]
          [] GlobalSource(attr_name, instrument_id) = "missing" -> None]

\* get_global_attributes(instrument_id)
get_global_attributes(instrument_id) ==
    /\ pc = "ready"
    /\ args.cls = "CdfAttributeManager"
    /\ call' = [op |-> "get_global_attributes", arg |-> instrument_id,
                value |-> None, check_schema |-> TRUE]
    /\ error' = GetGlobalError(instrument_id)
    /\ result' = IF GetGlobalError(instrument_id) = "none"
                 THEN Dict(GetGlobalOutput(instrument_id))
                 ELSE None
    /\ UNCHANGED <<pc, args, _global_attr_schema, _variable_attr_schema,
                   _global_attributes, _variable_attributes, ncalls>>

\* the global schema layer lists of the behaviours that go on to load and
\* resolve global attributes: over the default layer they give entries with
\* all three fields; [global_c.yaml] makes __init__ raise
GlobalConfigs ==
    {None, List(<<"global_test.yaml">>), List(<<"global_b.yaml">>),
     List(<<"global_test.yaml", "global_b.yaml">>), List(<<"global_c.yaml">>)}

\* CdfAttributeManager(global_schema_layers, None, use_defaults)
ConstructManager ==
    \E use_defaults \in {Bool(TRUE), None}, global_schema_layers \in GlobalConfigs :
        Construct("CdfAttributeManager", use_defaults, global_schema_layers, None)

Next ==
    \/ ConstructManager
    \/ \E file_path \in GlobalAttributeFiles : load_global_attributes(file_path)
    \/ \E attribute_name \in AddedNames, attribute_value \in AddedValues :
           add_global_attribute(attribute_name, attribute_value)
    \/ \E instrument_id \in InstrumentIds : get_global_attributes(instrument_id)

\* a CdfAttributeManager and its global attributes
Spec == Init /\ [][Next]_vars

---------------------------------------------------------------------------
(* Variable attribute values: CdfAttributeManager *)

\* the variable attribute files a caller may load
VariableAttributeFiles == {"imap_test_variable.yaml", "imap_more_variable.yaml"}

\* _load_yaml_data(file_path) of a variable attribute file: a mapping of
\* attribute values for each variable
VariableAttributeData(file_path) ==
    CASE file_path = "imap_test_variable.yaml" ->
            [test_field_1 |->
                Dict([CATDESC |-> Str("test time"), DEPEND_0 |-> Str("test_depend"),
                      DEPEND_1 |-> Str("test_depend_1"),
                      DEPEND_2 |-> Str("test_depend_2"),
                      NOT_IN_SCHEMA |-> Str("not_in_schema")]),
             test_field_3 |->
                Dict([DEPEND_1 |-> Str("depend_1_test_3"),
                      REPRESENTATION_2 |-> Str("representation_2"),
                      LABL_PTR_1 |-> Str("labl_ptr_1")])]
      [] file_path = "imap_more_variable.yaml" ->
            [test_field_1 |->
                Dict([CATDESC |-> Str("test time 2"), DEPEND_i |-> Str("literal"),
                      DEPEND_3 |-> Str("test_depend_3"),
                      SI_CONVERSION |-> Str("si")]),
             test_field_2 |->
                Dict([LABL_PTR_i |-> Str("literal"), LABL_PTR_2 |-> Str("labl_ptr_2"),
                      MY_DEPEND |-> Str("mine"), VAR_TYPE |-> Str("data")])]

\* the variable names a caller may ask for; never_loaded is in no file
VariableNames == {"test_field_1", "test_field_2", "test_field_3", "never_loaded"}

\* load_variable_attributes(file_path)
load_variable_attributes(file_path) ==
    /\ pc = "ready"
    /\ args.cls = "CdfAttributeManager"
    /\ ncalls < MaxCalls
    /\ _variable_attributes' =
           CdfAttributeManager_merge(_variable_attributes,
                                     VariableAttributeData(file_path))
    /\ call' = [op |-> "load_variable_attributes", arg |-> Str(file_path),
                value |-> None, check_schema |-> TRUE]
    /\ result' = None
    /\ error' = "none"
    /\ ncalls' = ncalls + 1
    /\ UNCHANGED <<pc, args, _global_attr_schema, _variable_attr_schema,
                   _global_attributes>>

\* a slip the check_schema=False case could have: the stored values are
\* indexed without the membership test
UncheckedIndexed(variable_name) ==
    IF variable_name \in DOMAIN _variable_attributes
    THEN [error |-> "none", result |-> _variable_attributes[variable_name]]
    ELSE [error |-> "KeyError", result |-> None]

\* a slip the check_schema=False case could have: only the schema's attributes
\* are returned
UncheckedFiltered(variable_name) ==
    IF variable_name \in DOMAIN _variable_attributes
    THEN [error |-> "none",
          result |-> Dict([key \in DOMAIN _variable_attributes[variable_name].d
                                   \cap DOMAIN _variable_attr_schema["attribute_key"].d
                              |-> _variable_attributes[variable_name].d[key]])]
    ELSE [error |-> "none", result |-> Dict(EmptyDict)]

\* get_variable_attributes(variable_name, check_schema=False)
GetVariableUnchecked(variable_name) ==
    IF variable_name \in DOMAIN _variable_attributes
    THEN [error |-> "none", result |-> _variable_attributes[variable_name]]
    ELSE [error |-> "none", result |-> Dict(EmptyDict)]

\* a slip the family cases could have: only the DEPEND_i placeholder is handled
OnlyDependMarker(attr_name) ==
    CASE attr_name = "DEPEND_i" -> "DEPEND"
      [] OTHER -> ""

\* the substring that marks the family of a placeholder attribute, "" for an
\* attribute that is no placeholder
FamilyMarker(attr_name) ==
    CASE attr_name = "DEPEND_i" -> "DEPEND"
      [] attr_name = "LABL_PTR_i" -> "LABL_PTR"
      [] attr_name = "REPRESENTATION_i" -> "REPRESENTATION"
      [] OTHER -> ""

\* a slip the loop could have: a required attribute without a value is left out
NoEmptyStringBranch(attr_name, stored) ==
    IF attr_name \in DOMAIN stored THEN "stored"
    ELSE IF FamilyMarker(attr_name) # "" THEN "family"
    ELSE "absent"

\* get_variable_attributes, one pass of the loop: the branch taken for
\* attr_name, stored being the dict of the variable's values
VariableBranch(attr_name, stored) ==
    IF attr_name \in DOMAIN stored THEN "stored"
    ELSE IF FamilyMarker(attr_name) # "" THEN "family"
    ELSE IF Truthy(_variable_attr_schema["attribute_key"].d[attr_name].d["required"])
            /\ attr_name \notin DOMAIN stored
    THEN "missing"
    ELSE "absent"

\* dict.keys(): the keys of a dict one after the other, each once; the order
\* of the model is arbitrary where Python's is the order of insertion
RECURSIVE DictKeys(_)
DictKeys(d) ==
    IF DOMAIN d = {} THEN <<>>
    ELSE LET key == CHOOSE k \in DOMAIN d : TRUE
         IN  <<key>> \o DictKeys([k \in DOMAIN d \ {key} |-> d[k]])

\* a slip the DEPEND case could have: the keys are collected once for DEPEND
\* and once more for DEPEND_0
DependAttrsTwoPatterns(variable_name) ==
    LET HasDepend(key) == Contains("DEPEND", key)
        HasDepend0(key) == Contains("DEPEND_0", key)
        keys == DictKeys(_variable_attributes[variable_name].d)
    IN  SelectSeq(keys, HasDepend) \o SelectSeq(keys, HasDepend0)

\* get_variable_attributes, the DEPEND_i case: the list of the keys of the
\* variable that contain "DEPEND"
variable_depend_attrs(variable_name) ==
    LET HasDepend(key) == Contains("DEPEND", key)
    IN  SelectSeq(DictKeys(_variable_attributes[variable_name].d), HasDepend)

\* get_variable_attributes, the DEPEND_i case: the duplicate warning is logged
DuplicateDependWarning(variable_name) ==
    Cardinality(Range(variable_depend_attrs(variable_name)))
        # Len(variable_depend_attrs(variable_name))

\* the keys of the variable that a family placeholder collects
FamilyKeys(attr_name, stored) ==
    {key \in DOMAIN stored : Contains(FamilyMarker(attr_name), key)}

\* a slip get_variable_attributes could have: a variable that was never loaded
\* is taken to store nothing
SchemaOnlyError(variable_name) ==
    IF "attribute_key" \notin DOMAIN _variable_attr_schema THEN "KeyError"
    ELSE "none"

\* get_variable_attributes(variable_name, check_schema=True): the exception
\* raised, or "none"
GetVariableError(variable_name) ==
    IF "attribute_key" \notin DOMAIN _variable_attr_schema THEN "KeyError"
    ELSE IF DOMAIN _variable_attr_schema["attribute_key"].d = {} THEN "none"
    ELSE IF variable_name \notin DOMAIN _variable_attributes THEN "KeyError"
    ELSE IF \E a \in DOMAIN _variable_attr_schema["attribute_key"].d :
                /\ a \notin DOMAIN _variable_attributes[variable_name].d
                /\ FamilyMarker(a) = ""
                /\ "required" \notin DOMAIN _variable_attr_schema["attribute_key"].d[a].d
    THEN "KeyError"
    ELSE "none"

\* a slip get_variable_attributes could have: every stored value is copied to
\* the output, whatever the schema says
OutputEveryStored(variable_name) ==
    LET schema == _variable_attr_schema["attribute_key"].d
        stored == IF variable_name \in DOMAIN _variable_attributes
                  THEN _variable_attributes[variable_name].d
                  ELSE EmptyDict
        keys == DOMAIN stored
                \cup {a \in DOMAIN schema : VariableBranch(a, stored) = "missing"}
    IN  [key \in keys |-> IF key \in DOMAIN stored THEN stored[key] ELSE Str("")]

\* get_variable_attributes(variable_name, check_schema=True): the dict
\* returned when nothing raises
GetVariableOutput(variable_name) ==
    LET schema == _variable_attr_schema["attribute_key"].d
        stored == IF variable_name \in DOMAIN _variable_attributes
                  THEN _variable_attributes[variable_name].d
                  ELSE EmptyDict
        keys == {a \in DOMAIN schema : VariableBranch(a, stored) \in {"stored", "missing"}}
                \cup UNION {FamilyKeys(a, stored) :
                                a \in {b \in DOMAIN schema :
                                           VariableBranch(b, stored) = "family"}}
    IN  [key \in keys |-> IF key \in DOMAIN stored THEN stored[key] ELSE Str("")]

\* get_variable_attributes(variable_name, check_schema)
get_variable_attributes(variable_name, check_schema) ==
    /\ pc = "ready"
    /\ args.cls = "CdfAttributeManager"
    /\ call' = [op |-> "get_variable_attributes", arg |-> Str(variable_name),
                value |-> None, check_schema |-> check_schema]
    /\ IF check_schema = FALSE
       THEN /\ error' = GetVariableUnchecked(variable_name).error
            /\ result' = GetVariableUnchecked(variable_name).result
       ELSE /\ error' = GetVariableError(variable_name)
            /\ result' = IF GetVariableError(variable_name) = "none"
                         THEN Dict(GetVariableOutput(variable_name))
                         ELSE None
    /\ UNCHANGED <<pc, args, _global_attr_schema, _variable_attr_schema,
                   _global_attributes, _variable_attributes, ncalls>>

\* CdfAttributeManager(global_schema_layers, variable_schema_layers,
\* use_defaults) for every list of variable layers; without the defaults the
\* global schema is global_d.yaml
ConstructVariableManager ==
    \E use_defaults \in {Bool(TRUE), Bool(FALSE)},
       variable_schema_layers \in LayerLists(VariableLayerFiles, MaxLayers) :
        Construct("CdfAttributeManager", use_defaults,
                  IF use_defaults = Bool(TRUE) THEN None ELSE List(<<"global_d.yaml">>),
                  variable_schema_layers)

NextVariable ==
    \/ ConstructVariableManager
    \/ \E file_path \in VariableAttributeFiles : load_variable_attributes(file_path)
    \/ \E variable_name \in VariableNames, check_schema \in BOOLEAN :
           get_variable_attributes(variable_name, check_schema)

\* a CdfAttributeManager and its variable attributes
SpecVariable == Init /\ [][NextVariable]_vars

---------------------------------------------------------------------------
(* Templates and info: CdfAttributeManager and SWxSchema *)

IsSpace(c) == c \in {" ", "\n", "\t"}

RECURSIVE LStrip(_)
LStrip(s) ==
    IF Len(s) > 0 /\ IsSpace(SubSeq(s, 1, 1)) THEN LStrip(SubSeq(s, 2, Len(s))) ELSE s

RECURSIVE RStrip(_)
RStrip(s) ==
    IF Len(s) > 0 /\ IsSpace(SubSeq(s, Len(s), Len(s)))
    THEN RStrip(SubSeq(s, 1, Len(s) - 1))
    ELSE s

\* str.strip()
Strip(s) == LStrip(RStrip(s))

\* ", ".join(q)
RECURSIVE JoinComma(_)
JoinComma(q) ==
    IF Len(q) = 0 THEN ""
    ELSE IF Len(q) = 1 THEN q[1]
    ELSE q[1] \o ", " \o JoinComma(Tail(q))

\* a pandas table: its rows by the value of the Attribute column
Table(rows) == [k |-> "table", t |-> rows]

\* the calls below take no file and count no call
ViewCall(op, attribute_name) ==
    [op |-> op, arg |-> attribute_name, value |-> None, check_schema |-> TRUE]

\* a slip the global template could have: the entries are chosen by their
\* schema default, whatever has been stored since
TemplateByDefault(attr_name) ==
    /\ Truthy(_global_attr_schema[attr_name].d["required"])
    /\ _global_attr_schema[attr_name].d["default"] = None

\* global_attribute_template, the condition of the loop: in a
\* CdfAttributeManager self._global_attributes are the stored values, in a
\* SWxSchema self.default_global_attributes are the values seeded by __init__
InGlobalTemplate(attr_name) ==
    /\ Truthy(_global_attr_schema[attr_name].d["required"])
    /\ attr_name \notin DOMAIN _global_attributes

\* global_attribute_template()
global_attribute_template ==
    /\ pc = "ready"
    /\ call' = ViewCall("global_attribute_template", None)
    /\ IF \E n \in DOMAIN _global_attr_schema :
              "required" \notin DOMAIN _global_attr_schema[n].d
       THEN /\ error' = "KeyError"
            /\ result' = None
       ELSE /\ error' = "none"
            /\ result' = Dict([n \in {m \in DOMAIN _global_attr_schema :
                                          InGlobalTemplate(m)} |-> None])
    /\ UNCHANGED <<pc, args, _global_attr_schema, _variable_attr_schema,
                   _global_attributes, _variable_attributes, ncalls>>

\* a slip the variable template could have: every entry is listed
EveryEntryTemplate(attr_schema) == TRUE

\* variable_attribute_template / measurement_attribute_template, the condition
\* of the loop
InVariableTemplate(attr_schema) == Truthy(attr_schema.d["required"])

\* variable_attribute_template() of a CdfAttributeManager,
\* measurement_attribute_template() of a SWxSchema
variable_attribute_template ==
    /\ pc = "ready"
    /\ call' = ViewCall("variable_attribute_template", None)
    /\ IF \/ "attribute_key" \notin DOMAIN _variable_attr_schema
          \/ \E n \in DOMAIN _variable_attr_schema["attribute_key"].d :
                "required" \notin DOMAIN _variable_attr_schema["attribute_key"].d[n].d
       THEN /\ error' = "KeyError"
            /\ result' = None
       ELSE /\ error' = "none"
            /\ result' =
                 Dict([n \in {m \in DOMAIN _variable_attr_schema["attribute_key"].d :
                                InVariableTemplate(
                                    _variable_attr_schema["attribute_key"].d[m])}
                          |-> None])
    /\ UNCHANGED <<pc, args, _global_attr_schema, _variable_attr_schema,
                   _global_attributes, _variable_attributes, ncalls>>

\* entry with its description stripped:
\* info[attr_name]["description"] = info[attr_name]["description"].strip()
StripEntry(entry) ==
    Dict([entry.d EXCEPT !["description"] = Str(Strip(@.s))])

Buckets == <<"data", "support_data", "metadata">>

\* the var_types string of attr_name: the buckets that list it, comma-joined
VarTypes(attr_name) ==
    LET listed(var_type) == attr_name \in Range(_variable_attr_schema[var_type].l)
    IN  JoinComma(SelectSeq(Buckets, listed))

\* entry of the variable schema with its description stripped and its
\* var_types set
WithVarTypes(attr_name) ==
    LET entry == StripEntry(_variable_attr_schema["attribute_key"].d[attr_name]).d
    IN  Dict([field \in DOMAIN entry \cup {"var_types"} |->
                 IF field = "var_types" THEN Str(VarTypes(attr_name))
                 ELSE entry[field]])

\* the info functions are modelled for schemas they do not fail on halfway:
\* every entry has a description string and the three buckets are lists
GlobalInfoDefined ==
    \A n \in DOMAIN _global_attr_schema :
        /\ "description" \in DOMAIN _global_attr_schema[n].d
        /\ _global_attr_schema[n].d["description"].k = "str"

VariableInfoDefined ==
    /\ {"attribute_key", "data", "support_data", "metadata"}
           \subseteq DOMAIN _variable_attr_schema
    /\ \A n \in DOMAIN _variable_attr_schema["attribute_key"].d :
        /\ "description" \in DOMAIN _variable_attr_schema["attribute_key"].d[n].d
        /\ _variable_attr_schema["attribute_key"].d[n].d["description"].k = "str"

\* a slip the info functions could have: an unknown name gives the whole
\* listing
UnknownNameLists(attribute_name, info) ==
    IF Truthy(attribute_name) /\ attribute_name.s \in DOMAIN info
    THEN [error |-> "none", one |-> TRUE, names |-> {attribute_name.s}]
    ELSE [error |-> "none", one |-> FALSE, names |-> DOMAIN info]

\* the end of the info functions: what is returned or raised for
\* attribute_name, info being the entries by name
LimitInfo(attribute_name, info) ==
    IF Truthy(attribute_name) /\ attribute_name.s \in DOMAIN info
    THEN [error |-> "none", one |-> TRUE, names |-> {attribute_name.s}]
    ELSE IF Truthy(attribute_name) /\ attribute_name.s \notin DOMAIN info
    THEN [error |-> "KeyError", one |-> FALSE, names |-> {}]
    ELSE [error |-> "none", one |-> FALSE, names |-> DOMAIN info]

\* the value an info function returns: a CdfAttributeManager gives the entry
\* or the dict of entries, a SWxSchema the table of the rows
InfoResult(attribute_name, info) ==
    LET limit == LimitInfo(attribute_name, info)
    IN  IF limit.error # "none" THEN None
        ELSE IF args.cls = "SWxSchema"
        THEN Table([n \in limit.names |-> info[n]])
        ELSE IF limit.one THEN info[attribute_name.s]
        ELSE Dict(info)

\* the names a caller may ask the info functions for
InfoNames ==
    {None, Str(""), Str("Descriptor"), Str("CATDESC"), Str("NotAnAttribute")}

\* global_attribute_info(attribute_name): info holds the entries of the
\* schema themselves, so that the strip is written to the schema
global_attribute_info(attribute_name) ==
    /\ pc = "ready"
    /\ GlobalInfoDefined
    /\ call' = ViewCall("global_attribute_info", attribute_name)
    /\ LET info == [n \in DOMAIN _global_attr_schema |->
                       StripEntry(_global_attr_schema[n])]
       IN  /\ _global_attr_schema' = info
           /\ error' = LimitInfo(attribute_name, info).error
           /\ result' = InfoResult(attribute_name, info)
    /\ UNCHANGED <<pc, args, _variable_attr_schema, _global_attributes,
                   _variable_attributes, ncalls>>

\* variable_attribute_info(attribute_name) of a CdfAttributeManager,
\* measurement_attribute_info(attribute_name) of a SWxSchema: the strip and
\* var_types are written to the entries of the schema
variable_attribute_info(attribute_name) ==
    /\ pc = "ready"
    /\ VariableInfoDefined
    /\ call' = ViewCall("variable_attribute_info", attribute_name)
    /\ LET info == [n \in DOMAIN _variable_attr_schema["attribute_key"].d |->
                       WithVarTypes(n)]
       IN  /\ _variable_attr_schema' =
                  [_variable_attr_schema EXCEPT !["attribute_key"] = Dict(info)]
           /\ error' = LimitInfo(attribute_name, info).error
           /\ result' = InfoResult(attribute_name, info)
    /\ UNCHANGED <<pc, args, _global_attr_schema, _global_attributes,
                   _variable_attributes, ncalls>>

\* the two classes, with the defaults alone, with the layers of
\* test_cdf_manager_custom_layers, and with a schema of their own
ConstructOperations ==
    \E cls \in Classes :
        \/ Construct(cls, Bool(TRUE), None, None)
        \/ Construct(cls, Bool(TRUE), List(<<"global_test.yaml">>),
                     List(<<"variable_test.yaml">>))
        \/ Construct(cls, Bool(FALSE), List(<<"global_d.yaml">>),
                     List(<<"variable_c.yaml">>))

NextOperations ==
    \/ ConstructOperations
    \/ \E file_path \in GlobalAttributeFiles : load_global_attributes(file_path)
    \/ \E attribute_name \in AddedNames, attribute_value \in AddedValues :
           add_global_attribute(attribute_name, attribute_value)
    \/ \E instrument_id \in InstrumentIds : get_global_attributes(instrument_id)
    \/ \E file_path \in VariableAttributeFiles : load_variable_attributes(file_path)
    \/ \E variable_name \in VariableNames, check_schema \in BOOLEAN :
           get_variable_attributes(variable_name, check_schema)
    \/ global_attribute_template
    \/ variable_attribute_template
    \/ \E attribute_name \in InfoNames : global_attribute_info(attribute_name)
    \/ \E attribute_name \in InfoNames : variable_attribute_info(attribute_name)

\* every public operation of the two classes
SpecOperations == Init /\ [][NextOperations]_vars

---------------------------------------------------------------------------
(* CDFValidator *)

\* the longest report, in lines
MaxLines == 4

StartsWith(s, prefix) ==
    Len(s) >= Len(prefix) /\ SubSeq(s, 1, Len(prefix)) = prefix

EndsWith(s, suffix) ==
    Len(s) >= Len(suffix) /\ SubSeq(s, Len(s) - Len(suffix) + 1, Len(s)) = suffix

\* the position of the first line break of s, 0 if it has none
RECURSIVE FirstBreak(_, _)
FirstBreak(s, i) ==
    IF i > Len(s) THEN 0
    ELSE IF SubSeq(s, i, i) = "\n" THEN i
    ELSE FirstBreak(s, i + 1)

\* str.splitlines()
RECURSIVE SplitLines(_)
SplitLines(s) ==
    IF s = "" THEN <<>>
    ELSE IF FirstBreak(s, 1) = 0 THEN <<s>>
    ELSE <<SubSeq(s, 1, FirstBreak(s, 1) - 1)>>
         \o SplitLines(SubSeq(s, FirstBreak(s, 1) + 1, Len(s)))

\* "\n".join(q)
RECURSIVE JoinLines(_)
JoinLines(q) ==
    IF Len(q) = 0 THEN ""
    ELSE IF Len(q) = 1 THEN q[1]
    ELSE q[1] \o "\n" \o JoinLines(Tail(q))

\* _parse_errors before the loop; "" stands for the None of current_section
\* and of current_variable, which the code only tests for truth
ParseStart == [current_section |-> "", current_variable |-> "", errors |-> <<>>]

\* a slip _parse_errors could have: a section header leaves the current
\* variable as it is
ParseLineKeepVariable(st, line) ==
    IF Contains("Global errors:", line)
    THEN [st EXCEPT !.current_section = "Global errors"]
    ELSE IF Contains("The following variables are not ISTP-compliant", line)
    THEN [st EXCEPT !.current_section = "Variable"]
    ELSE IF /\ st.current_section = "Variable"
            /\ StartsWith(line, "\t")
            /\ ~StartsWith(line, "\t\t")
    THEN [st EXCEPT !.current_variable = Strip(line)]
    ELSE IF st.current_section # "" /\ Strip(line) # "" /\ ~Contains("Warning", line)
    THEN IF st.current_section = "Variable" /\ st.current_variable # ""
         THEN [st EXCEPT !.errors =
                   Append(@, st.current_variable \o ":: " \o Strip(line))]
         ELSE [st EXCEPT !.errors =
                   Append(@, st.current_section \o ": " \o Strip(line))]
    ELSE IF st.current_section # "" /\ Strip(line) = ""
    THEN [st EXCEPT !.current_section = "", !.current_variable = ""]
    ELSE st

\* _parse_errors, one pass of the loop
ParseLine(st, line) ==
    IF Contains("Global errors:", line)
    THEN [st EXCEPT !.current_section = "Global errors", !.current_variable = ""]
    ELSE IF Contains("The following variables are not ISTP-compliant", line)
    THEN [st EXCEPT !.current_section = "Variable", !.current_variable = ""]
    ELSE IF /\ st.current_section = "Variable"
            /\ StartsWith(line, "\t")
            /\ ~StartsWith(line, "\t\t")
    THEN [st EXCEPT !.current_variable = Strip(line)]
    ELSE IF st.current_section # "" /\ Strip(line) # "" /\ ~Contains("Warning", line)
    THEN IF st.current_section = "Variable" /\ st.current_variable # ""
         THEN [st EXCEPT !.errors =
                   Append(@, st.current_variable \o ":: " \o Strip(line))]
         ELSE [st EXCEPT !.errors =
                   Append(@, st.current_section \o ": " \o Strip(line))]
    ELSE IF st.current_section # "" /\ Strip(line) = ""
    THEN [st EXCEPT !.current_section = "", !.current_variable = ""]
    ELSE st

\* _parse_errors, the loop over the lines
RECURSIVE ParseLines(_, _)
ParseLines(st, lines) ==
    IF Len(lines) = 0 THEN st
    ELSE ParseLines(ParseLine(st, Head(lines)), Tail(lines))

NotHeader(e) == ~EndsWith(e, ":")

\* a slip _parse_errors could have: the message of a failed request is parsed
\* as a report
ParseAsReport(raw_response) ==
    SelectSeq(ParseLines(ParseStart, SplitLines(raw_response)).errors, NotHeader)

\* _parse_errors(raw_response)
_parse_errors(raw_response) ==
    IF StartsWith(raw_response, "API request failed:") THEN <<raw_response>>
    ELSE SelectSeq(ParseLines(ParseStart, SplitLines(raw_response)).errors, NotHeader)

\* the lines a report of the validation service is made of
ReportLines ==
    {"Global errors:", "The following variables are not ISTP-compliant:",
     "\tEpoch", "\tB_gse", "\t\tmissing FILLVAL", "", "\t", "\tWarning: no VALIDMIN",
     "Logical_source missing"}

\* the reports of at most MaxLines lines
Reports ==
    {JoinLines(q) : q \in UNION {[1..m -> ReportLines] : m \in 0..MaxLines}}

\* what cdf_path is: the Path of a file, the Path of no file, a str
PathKinds == {"file", "missing", "str"}

\* how the request ends: a response with a report, a connection error, an
\* error status, a response that is not UTF-8
RequestOutcomes == {"ok", "ConnectionError", "HTTPError", "undecodable"}

\* validate_raw(cdf_path): the exception it lets through, or the string it
\* returns
ValidateRaw(cdf_path, outcome, content) ==
    IF cdf_path = "missing"
    THEN [raised |-> "FileNotFoundError", text |-> "No such file or directory"]
    ELSE IF cdf_path = "str"
    THEN [raised |-> "AttributeError", text |-> "'str' object has no attribute 'name'"]
    ELSE IF outcome = "ConnectionError"
    THEN [raised |-> "none", text |-> "API request failed: " \o "connection refused"]
    ELSE IF outcome = "HTTPError"
    THEN [raised |-> "none", text |-> "API request failed: " \o "500 Server Error"]
    ELSE IF outcome = "undecodable"
    THEN [raised |-> "UnicodeDecodeError", text |-> "invalid start byte"]
    ELSE [raised |-> "none", text |-> content]

\* the call of a validator: the path, how the request ends and what the
\* service answers
ValidatorCall(op, cdf_path, outcome, content) ==
    [op |-> op, arg |-> Str(cdf_path),
     value |-> Dict([outcome |-> Str(outcome), content |-> Str(content)]),
     check_schema |-> TRUE]

\* CDFValidator.validate_raw(cdf_path)
validate_raw(cdf_path, outcome, content) ==
    /\ call' = ValidatorCall("validate_raw", cdf_path, outcome, content)
    /\ error' = ValidateRaw(cdf_path, outcome, content).raised
    /\ result' = IF ValidateRaw(cdf_path, outcome, content).raised = "none"
                 THEN Str(ValidateRaw(cdf_path, outcome, content).text)
                 ELSE None
    /\ UNCHANGED <<pc, args, _global_attr_schema, _variable_attr_schema,
                   _global_attributes, _variable_attributes, ncalls>>

\* CDFValidator.validate(cdf_path): every Exception is caught
validate(cdf_path, outcome, content) ==
    /\ call' = ValidatorCall("validate", cdf_path, outcome, content)
    /\ error' = "none"
    /\ result' = IF ValidateRaw(cdf_path, outcome, content).raised = "none"
                 THEN List(_parse_errors(ValidateRaw(cdf_path, outcome, content).text))
                 ELSE List(<<"Validation failed: "
                             \o ValidateRaw(cdf_path, outcome, content).text>>)
    /\ UNCHANGED <<pc, args, _global_attr_schema, _variable_attr_schema,
                   _global_attributes, _variable_attributes, ncalls>>

\* response.content: a report when the request was sent and answered,
\* nothing otherwise
Contents(cdf_path, outcome) ==
    IF cdf_path = "file" /\ outcome = "ok" THEN Reports ELSE {""}

\* a CDFValidator keeps nothing from one call to the next: a behaviour has
\* one call
NextValidator ==
    \/ /\ call = NoCall
       /\ \E cdf_path \in PathKinds, outcome \in RequestOutcomes :
              \E content \in Contents(cdf_path, outcome) :
                  validate_raw(cdf_path, outcome, content)
    \/ /\ call = NoCall
       /\ \E cdf_path \in PathKinds, outcome \in RequestOutcomes :
              \E content \in Contents(cdf_path, outcome) :
                  validate(cdf_path, outcome, content)

\* a CDFValidator
SpecValidator == Init /\ [][NextValidator]_vars

---------------------------------------------------------------------------
(* _merge on any two mappings *)

\* the longest sequence in a mapping handed to _merge
MaxSeqLen == 1

MergeScalars == {Str("x"), Str("y")}

\* the sequences of at most MaxSeqLen elements
MergeLists == {List(q) : q \in UNION {[1..m -> {"p", "q"}] : m \in 0..MaxSeqLen}}

\* the mappings of the given keys, or some of them, to the given values
Mappings(keys, values) == UNION {[s -> values] : s \in SUBSET keys}

\* the mappings handed to _merge: under "a" a scalar, a sequence, or a nested
\* mapping of "c" and "d" to scalars and sequences
MergeDicts ==
    Mappings({"a"},
             MergeScalars \cup MergeLists
             \cup {Dict(m) : m \in Mappings({"c", "d"}, MergeScalars \cup MergeLists)})

\* base_layer is any of the mappings; nothing was called yet
InitMerge ==
    /\ pc = "new"
    /\ args = NoArgs
    /\ _global_attr_schema = EmptyDict
    /\ _variable_attr_schema = EmptyDict
    /\ _global_attributes = EmptyDict
    /\ _variable_attributes = EmptyDict
    /\ call = NoCall
    /\ result \in {Dict(base_layer) : base_layer \in MergeDicts}
    /\ error = "none"
    /\ ncalls = 0

\* self._merge(base_layer, new_layer) of an object of class cls, result being
\* base_layer: the merge is done in place, call keeps the arguments
_merge(cls, new_layer) ==
    /\ args' = [args EXCEPT !.cls = cls]
    /\ call' = [op |-> "_merge", arg |-> result, value |-> Dict(new_layer),
                check_schema |-> TRUE]
    /\ result' = Dict(Merge(cls, result.d, new_layer))
    /\ pc' = "merged"
    /\ ncalls' = 1
    /\ UNCHANGED <<_global_attr_schema, _variable_attr_schema, _global_attributes,
                   _variable_attributes, error>>

\* self._merge(base_layer, new_layer) a second time, with the same new_layer.
\* Where the first call stored a value of new_layer in base_layer, the two now
\* share it; a sequence extended by itself is that sequence twice, which is
\* what the merge of two equal values gives.
_merge_again ==
    /\ pc = "merged"
    /\ result' = Dict(Merge(args.cls, result.d, call.value.d))
    /\ pc' = "merged again"
    /\ ncalls' = 2
    /\ UNCHANGED <<args, call, _global_attr_schema, _variable_attr_schema,
                   _global_attributes, _variable_attributes, error>>

NextMerge ==
    \/ /\ pc = "new"
       /\ \E cls \in Classes, new_layer \in MergeDicts : _merge(cls, new_layer)
    \/ _merge_again

\* _merge of the two classes, on any two mappings
SpecMerge == InitMerge /\ [][NextMerge]_vars

---------------------------------------------------------------------------
(* Properties of construction *)

\* __init__ got past the input validation: both schemas were assigned
SchemasBuilt == pc \in {"ready", "failed"} /\ error # "ValueError"

\* the layers the constructed object merged
ArgGlobalLayers == GlobalLayers(args.use_defaults, args.global_schema_layers)
ArgVariableLayers == VariableLayers(args.use_defaults, args.variable_schema_layers)

\* the entries of each variable layer (its attribute_key dict)
AttributeKeys(layers) == [i \in 1..Len(layers) |-> layers[i]["attribute_key"].d]

\* x is neither a dict nor a list
IsScalar(x) == ~IsDict(x) /\ ~IsList(x)

\* layer (a dict of entries) sets field f of entry n
Sets(layer, n, f) == n \in DOMAIN layer /\ f \in DOMAIN layer[n].d

\* the index of the last of the layers that sets field f of entry n
LastSetter(layers, n, f) ==
    CHOOSE i \in 1..Len(layers) :
        /\ Sets(layers[i], n, f)
        /\ \A j \in (i + 1)..Len(layers) : ~Sets(layers[j], n, f)

\* the (entry, field) pairs that some layer sets and every layer setting them
\* sets to a scalar
ScalarFields(layers) ==
    {nf \in UNION {UNION {{<<n, f>> : f \in DOMAIN layers[i][n].d} :
                          n \in DOMAIN layers[i]} : i \in 1..Len(layers)} :
        \A i \in 1..Len(layers) :
            Sets(layers[i], nf[1], nf[2]) => IsScalar(layers[i][nf[1]].d[nf[2]])}

\* every scalar field of the merged entries has the value of the last layer
\* that sets it
LastWriteWins(entries, layers) ==
    \A nf \in ScalarFields(layers) :
        /\ nf[1] \in DOMAIN entries
        /\ nf[2] \in DOMAIN entries[nf[1]].d
        /\ entries[nf[1]].d[nf[2]] =
               layers[LastSetter(layers, nf[1], nf[2])][nf[1]].d[nf[2]]

\* the first and the last layer set a common scalar field to different values
EndsConflict(layers) ==
    /\ Len(layers) >= 2
    /\ \E nf \in ScalarFields(layers) :
        /\ Sets(layers[1], nf[1], nf[2])
        /\ Sets(layers[Len(layers)], nf[1], nf[2])
        /\ layers[1][nf[1]].d[nf[2]] # layers[Len(layers)][nf[1]].d[nf[2]]

\* C1: CdfAttributeManager layering is last-write-wins.  In both schemas every
\* scalar field ends with the value of the last layer that sets it, and when
\* the first and the last layer set a common scalar field to different values,
\* folding the layers in the reverse order gives a different schema.
C1_LastWriteWins ==
    (SchemasBuilt /\ args.cls = "CdfAttributeManager") =>
        /\ LastWriteWins(_global_attr_schema, ArgGlobalLayers)
        /\ ArgVariableLayers # <<>> =>
               LastWriteWins(_variable_attr_schema["attribute_key"].d,
                             AttributeKeys(ArgVariableLayers))
        /\ EndsConflict(ArgGlobalLayers) =>
               MergeLayers(args.cls, EmptyDict, Reverse(ArgGlobalLayers))
                   # _global_attr_schema
        /\ EndsConflict(AttributeKeys(ArgVariableLayers)) =>
               MergeLayers(args.cls, EmptyDict, Reverse(ArgVariableLayers))
                   # _variable_attr_schema

\* three global layers were folded, the first and the last in conflict
C1_Witness ==
    /\ pc = "ready"
    /\ args.cls = "CdfAttributeManager"
    /\ Len(ArgGlobalLayers) = 3
    /\ EndsConflict(ArgGlobalLayers)
    /\ ArgGlobalLayers[2] # ArgGlobalLayers[3]

\* the merge of all layers but the last
Front(layers) == SubSeq(layers, 1, Len(layers) - 1)

\* entry n of `after` has the fields the override sets, with the override's
\* values, and every other field of entry n of `before`, unchanged
PartialOverride(before, override, after, n) ==
    /\ n \in DOMAIN after
    /\ DOMAIN after[n].d = DOMAIN before[n].d \cup DOMAIN override[n].d
    /\ \A f \in DOMAIN after[n].d :
        after[n].d[f] = IF f \in DOMAIN override[n].d /\ IsScalar(override[n].d[f])
                        THEN override[n].d[f]
                        ELSE IF f \in DOMAIN override[n].d /\ f \in DOMAIN before[n].d
                                /\ IsList(before[n].d[f])
                        THEN List(before[n].d[f].l \o override[n].d[f].l)
                        ELSE IF f \in DOMAIN override[n].d
                        THEN override[n].d[f]
                        ELSE before[n].d[f]

\* every entry the override shares with `before` is overridden field by field
OverridesKeepFields(before, override, after) ==
    \A n \in DOMAIN before \cap DOMAIN override :
        PartialOverride(before, override, after, n)

\* C2: in CdfAttributeManager an override layer that sets only some fields of
\* an entry defined by the earlier layers changes those fields and keeps every
\* other field of the entry.
C2_OverrideKeepsOtherFields ==
    (SchemasBuilt /\ args.cls = "CdfAttributeManager") =>
        /\ Len(ArgGlobalLayers) >= 2 =>
               OverridesKeepFields(
                   MergeLayers(args.cls, EmptyDict, Front(ArgGlobalLayers)),
                   ArgGlobalLayers[Len(ArgGlobalLayers)],
                   _global_attr_schema)
        /\ Len(ArgVariableLayers) >= 2 =>
               OverridesKeepFields(
                   MergeLayers(args.cls, EmptyDict,
                               Front(ArgVariableLayers))["attribute_key"].d,
                   ArgVariableLayers[Len(ArgVariableLayers)]["attribute_key"].d,
                   _variable_attr_schema["attribute_key"].d)

\* the test's case: Data_type: {required: true} on top of the default layer
C2_Witness ==
    /\ pc = "ready"
    /\ args.cls = "CdfAttributeManager"
    /\ args.use_defaults = Bool(TRUE)
    /\ args.global_schema_layers = List(<<"global_test.yaml">>)
    /\ _global_attr_schema["Data_type"].d["required"] = Bool(TRUE)
    /\ _global_attr_schema["Data_type"].d["description"] = Str("data type")

\* the default entries are all present in `entries`, and each of their fields
\* that no extra layer sets has its default value
DefaultsKept(default, extra, entries) ==
    \A n \in DOMAIN default :
        /\ n \in DOMAIN entries
        /\ \A f \in DOMAIN default[n].d :
            (\A i \in 1..Len(extra) : ~Sets(extra[i], n, f)) =>
                /\ f \in DOMAIN entries[n].d
                /\ entries[n].d[f] = default[n].d[f]

\* C3: SWxSchema layering is an additive nested merge.  After construction with
\* use_defaults=True and extra layers, every default entry the layers do not
\* mention is present, and every field the layers do not set keeps its default
\* value.
C3_AdditiveNestedMerge ==
    (pc = "ready" /\ args.cls = "SWxSchema" /\ args.use_defaults = Bool(TRUE)) =>
        /\ DefaultsKept(DefaultGlobalLayer, Tail(ArgGlobalLayers), _global_attr_schema)
        /\ DefaultsKept(DefaultVariableLayer["attribute_key"].d,
                        AttributeKeys(Tail(ArgVariableLayers)),
                        _variable_attr_schema["attribute_key"].d)

\* x is None or an empty list
NoneOrEmpty(x) == x \in {None, List(<<>>)}

\* C4: construction of either class raises ValueError exactly when
\* use_defaults is False or None and one of the two layer lists is None or
\* empty.
C4_ValueErrorIff ==
    pc # "new" =>
        (error = "ValueError" <=>
            /\ args.use_defaults \in {Bool(FALSE), None}
            /\ \/ NoneOrEmpty(args.global_schema_layers)
               \/ NoneOrEmpty(args.variable_schema_layers))

\* a CdfAttributeManager refused for an empty (not None) list of global layers
C4_Witness ==
    /\ pc = "failed"
    /\ error = "ValueError"
    /\ args.cls = "CdfAttributeManager"
    /\ args.use_defaults = Bool(FALSE)
    /\ args.global_schema_layers = List(<<>>)
    /\ args.variable_schema_layers = List(<<"variable_c.yaml">>)

---------------------------------------------------------------------------
(* Properties of get_global_attributes *)

\* the last call was get_global_attributes
GotGlobal == call.op = "get_global_attributes"

\* the stored values hold a mapping under instrument_id
LoadedInstrument(instrument_id) ==
    /\ instrument_id # None
    /\ instrument_id.s \in DOMAIN _global_attributes
    /\ IsDict(_global_attributes[instrument_id.s])

\* the mapping stored under instrument_id contains the name
InstrumentHas(instrument_id, n) ==
    /\ LoadedInstrument(instrument_id)
    /\ n \in DOMAIN _global_attributes[instrument_id.s].d

\* the four rules, in order: top-level value, instrument value, None for a
\* required entry, absent
ByPriority(instrument_id) ==
    [n \in {m \in DOMAIN _global_attr_schema :
                \/ m \in DOMAIN _global_attributes
                \/ InstrumentHas(instrument_id, m)
                \/ _global_attr_schema[m].d["required"] = Bool(TRUE)} |->
        IF n \in DOMAIN _global_attributes THEN _global_attributes[n]
        ELSE IF InstrumentHas(instrument_id, n)
        THEN _global_attributes[instrument_id.s].d[n]
        ELSE None]

\* C5 as stated: for every instrument_id, get_global_attributes raises nothing
\* and returns the mapping the four rules give.
C5_PriorityOrder ==
    GotGlobal => (error = "none" /\ result = Dict(ByPriority(call.arg)))

\* C5, amended: the same when instrument_id is None or the stored values hold
\* a mapping under it.
C5_PriorityOrderLoaded ==
    (GotGlobal /\ (call.arg = None \/ LoadedInstrument(call.arg))) =>
        (error = "none" /\ result = Dict(ByPriority(call.arg)))

\* one call in which each of the four rules decides an entry: Project has a
\* top-level value and an instrument value, Data_type only an instrument
\* value, Descriptor is required and has none, DOI is optional and has none
C5_Witness ==
    /\ GotGlobal
    /\ error = "none"
    /\ LoadedInstrument(call.arg)
    /\ "Project" \in DOMAIN _global_attributes
    /\ InstrumentHas(call.arg, "Project")
    /\ _global_attributes[call.arg.s].d["Project"] # _global_attributes["Project"]
    /\ result.d["Project"] = _global_attributes["Project"]
    /\ "Data_type" \notin DOMAIN _global_attributes
    /\ result.d["Data_type"] = Str("T1")
    /\ result.d["Descriptor"] = None
    /\ "DOI" \notin DOMAIN result.d

\* C6: after any load_global_attributes and add_global_attribute calls,
\* get_global_attributes with no instrument id or a loaded one returns a
\* mapping that contains every required entry of the global schema.
C6_RequiredPresent ==
    (GotGlobal /\ (call.arg = None \/ LoadedInstrument(call.arg))) =>
        /\ error = "none"
        /\ \A n \in DOMAIN _global_attr_schema :
            _global_attr_schema[n].d["required"] = Bool(TRUE) => n \in DOMAIN result.d

\* after two load/add calls, a required entry nobody gave a value is returned
\* as None
C6_Witness ==
    /\ GotGlobal
    /\ error = "none"
    /\ ncalls >= 2
    /\ "bad_name" \in DOMAIN _global_attributes
    /\ \E n \in DOMAIN _global_attr_schema :
        /\ _global_attr_schema[n].d["required"] = Bool(TRUE)
        /\ n \notin DOMAIN _global_attributes
        /\ result.d[n] = None

---------------------------------------------------------------------------
(* Properties of get_variable_attributes *)

\* the last call was get_variable_attributes with this check_schema
GotVariable(check_schema) ==
    /\ call.op = "get_variable_attributes"
    /\ call.check_schema = check_schema

\* the variable of the last call has stored values
LoadedVariable == call.arg.s \in DOMAIN _variable_attributes

\* the dict of values stored for the variable of the last call
StoredOfCall == _variable_attributes[call.arg.s].d

\* the variable schema attributes whose required field is true
RequiredAttributes ==
    {a \in DOMAIN _variable_attr_schema["attribute_key"].d :
        _variable_attr_schema["attribute_key"].d[a].d["required"] = Bool(TRUE)}

Placeholders == {"DEPEND_i", "LABL_PTR_i", "REPRESENTATION_i"}

\* every attribute of `required` is in the result, with the empty string when
\* the variable stores no value for it
RequiredInResult(required) ==
    /\ error = "none"
    /\ \A a \in required :
        /\ a \in DOMAIN result.d
        /\ a \notin DOMAIN StoredOfCall => result.d[a] = Str("")

\* C7 as stated: for a loaded variable, get_variable_attributes(variable_name,
\* check_schema=True) raises nothing and returns a mapping that contains every
\* schema attribute whose required field is true, with the empty string for a
\* required attribute the variable does not store.
C7_RequiredVariableAttributes ==
    (GotVariable(TRUE) /\ LoadedVariable) => RequiredInResult(RequiredAttributes)

\* C7 with the placeholders set apart: for a loaded variable,
\* get_variable_attributes(variable_name, check_schema=True) raises nothing and
\* returns a mapping that contains every required schema attribute other than
\* DEPEND_i, LABL_PTR_i and REPRESENTATION_i, with the empty string for one the
\* variable does not store; a required placeholder that is not stored is not
\* in the output.
C7_RequiredExceptPlaceholders ==
    (GotVariable(TRUE) /\ LoadedVariable) =>
        /\ RequiredInResult(RequiredAttributes \ Placeholders)
        /\ \A a \in (RequiredAttributes \cap Placeholders) \ DOMAIN StoredOfCall :
               a \notin DOMAIN result.d

\* a variable without CATDESC and DEPEND_0 gets both as empty strings, under a
\* schema that also requires a placeholder
C7_Witness ==
    /\ GotVariable(TRUE)
    /\ LoadedVariable
    /\ call.arg = Str("test_field_3")
    /\ {"CATDESC", "DEPEND_0", "DEPEND_i"} \subseteq RequiredAttributes
    /\ result.d["CATDESC"] = Str("")
    /\ result.d["DEPEND_0"] = Str("")
    /\ "DEPEND_i" \notin DOMAIN result.d

\* the stored keys of the variable of the last call that contain marker
KeysWith(marker) == {key \in DOMAIN StoredOfCall : Contains(marker, key)}

\* placeholder is in the schema, not stored for the variable, and every stored
\* key containing marker is in the result with its stored value
FamilyCollected(placeholder, marker) ==
    (/\ placeholder \in DOMAIN _variable_attr_schema["attribute_key"].d
     /\ placeholder \notin DOMAIN StoredOfCall) =>
        \A key \in KeysWith(marker) :
            /\ key \in DOMAIN result.d
            /\ result.d[key] = StoredOfCall[key]

\* C8: when the variable schema contains DEPEND_i (resp. LABL_PTR_i,
\* REPRESENTATION_i) and the variable stores no value under that literal name,
\* get_variable_attributes(check_schema=True) copies every stored key of the
\* variable whose name contains DEPEND (resp. LABL_PTR, REPRESENTATION) into the
\* output with its stored value, although none of them is a schema key.
C8_FamilyCollection ==
    (GotVariable(TRUE) /\ LoadedVariable /\ error = "none") =>
        /\ FamilyCollected("DEPEND_i", "DEPEND")
        /\ FamilyCollected("LABL_PTR_i", "LABL_PTR")
        /\ FamilyCollected("REPRESENTATION_i", "REPRESENTATION")

\* the three families are collected for one variable, none of the keys being a
\* schema key
C8_Witness ==
    /\ GotVariable(TRUE)
    /\ LoadedVariable
    /\ error = "none"
    /\ Placeholders \subseteq DOMAIN _variable_attr_schema["attribute_key"].d
    /\ Placeholders \cap DOMAIN StoredOfCall = {}
    /\ {"DEPEND_1", "LABL_PTR_1", "REPRESENTATION_2"} \cap
           DOMAIN _variable_attr_schema["attribute_key"].d = {}
    /\ result.d["DEPEND_1"] = Str("depend_1_test_3")
    /\ result.d["LABL_PTR_1"] = Str("labl_ptr_1")
    /\ result.d["REPRESENTATION_2"] = Str("representation_2")

\* C9 as stated: get_variable_attributes(variable_name, check_schema=False)
\* fails with KeyError when variable_name was never loaded.
C9_UncheckedNotFound ==
    (GotVariable(FALSE) /\ ~LoadedVariable) => error = "KeyError"

\* C9 as the code has it: get_variable_attributes(variable_name,
\* check_schema=False) raises nothing and returns the empty mapping when
\* variable_name was never loaded.
C9_UncheckedEmpty ==
    (GotVariable(FALSE) /\ ~LoadedVariable) =>
        /\ error = "none"
        /\ result = Dict(EmptyDict)

\* a variable that is in no file is asked for after a file was loaded
C9_Witness ==
    /\ GotVariable(FALSE)
    /\ call.arg = Str("never_loaded")
    /\ _variable_attributes # EmptyDict
    /\ ~LoadedVariable
    /\ result = Dict(EmptyDict)

\* C10: for a loaded variable, get_variable_attributes(variable_name,
\* check_schema=False) returns exactly the mapping stored for that variable,
\* with the attributes that are not in the schema and without placeholders for
\* missing required attributes.
C10_UncheckedVerbatim ==
    (GotVariable(FALSE) /\ LoadedVariable) =>
        /\ error = "none"
        /\ result = _variable_attributes[call.arg.s]
        /\ DOMAIN result.d = DOMAIN StoredOfCall

\* the mapping returned has an attribute that is not in the schema and lacks a
\* required one
C10_Witness ==
    /\ GotVariable(FALSE)
    /\ LoadedVariable
    /\ error = "none"
    /\ "NOT_IN_SCHEMA" \in DOMAIN result.d
    /\ "NOT_IN_SCHEMA" \notin DOMAIN _variable_attr_schema["attribute_key"].d
    /\ \E a \in RequiredAttributes \ Placeholders : a \notin DOMAIN result.d

---------------------------------------------------------------------------
(* Properties of the operations *)

\* get_global_attributes was called for an instrument that is not stored
\* while some schema entry has no top-level value
UnloadedInstrumentLookup ==
    /\ GotGlobal
    /\ call.arg # None
    /\ call.arg.s \notin DOMAIN _global_attributes
    /\ \E n \in DOMAIN _global_attr_schema : n \notin DOMAIN _global_attributes

\* get_variable_attributes(check_schema=True) was called for a variable that
\* is not stored while the variable schema has an entry
UnloadedVariableLookup ==
    /\ GotVariable(TRUE)
    /\ ~LoadedVariable
    /\ "attribute_key" \in DOMAIN _variable_attr_schema
    /\ DOMAIN _variable_attr_schema["attribute_key"].d # {}

\* a call of one of the two get functions that raises KeyError leaves the
\* stored values as they were
RaisingGetKeepsValues ==
    (call'.op \in {"get_global_attributes", "get_variable_attributes"}
     /\ error' = "KeyError") =>
        UNCHANGED <<_global_attributes, _variable_attributes>>

\* C11: get_global_attributes(instrument_id) raises KeyError when
\* instrument_id was never loaded and some schema entry has no top-level
\* stored value; get_variable_attributes(variable_name, check_schema=True)
\* raises KeyError when variable_name was never loaded and the variable schema
\* is not empty; in both cases the stored values are left unchanged.
C11_NotFound ==
    /\ [](UnloadedInstrumentLookup => error = "KeyError")
    /\ [](UnloadedVariableLookup => error = "KeyError")
    /\ [][RaisingGetKeepsValues]_vars

\* a variable that is in no file is asked for after values were loaded
C11_Witness ==
    /\ UnloadedVariableLookup
    /\ error = "KeyError"
    /\ result = None
    /\ _variable_attributes # EmptyDict
    /\ \E n \in DOMAIN _global_attr_schema : n \notin DOMAIN _global_attributes

\* the last call was op and raised nothing
Returned(op) == call.op = op /\ error = "none"

\* the global entries that are required and have a null default
RequiredWithoutDefault ==
    {n \in DOMAIN _global_attr_schema :
        /\ _global_attr_schema[n].d["required"] = Bool(TRUE)
        /\ _global_attr_schema[n].d["default"] = None}

\* C12: at any time after construction of a CdfAttributeManager, whatever
\* values have since been loaded or added, global_attribute_template() returns
\* exactly the global entries that are required and have a null default, each
\* mapped to None.
C12_TemplateOfSchema ==
    (Returned("global_attribute_template") /\ args.cls = "CdfAttributeManager") =>
        result = Dict([n \in RequiredWithoutDefault |-> None])

\* C13: no public operation called after __init__ changes the set of entries
\* of the global or variable schema, or the fields and field values of any
\* entry.
C13_SchemaImmutable ==
    [][pc = "ready" => UNCHANGED <<_global_attr_schema, _variable_attr_schema>>]_vars

\* the names listed in the class buckets of the variable schema
BucketNames ==
    UNION {Range(_variable_attr_schema[var_type].l) :
               var_type \in Range(Buckets) \cap DOMAIN _variable_attr_schema}

\* C14: after construction from any sequence of variable layers, every
\* attribute name in one of the buckets data, support_data, metadata is a key
\* of the attribute_key mapping of the variable schema; a layer that would
\* break this makes the construction fail.
C14_BucketsReferToEntries ==
    pc = "ready" =>
        BucketNames \subseteq DOMAIN _variable_attr_schema["attribute_key"].d

---------------------------------------------------------------------------
(* Properties of the stored global values *)

\* the top-level values the call recorded in c defines
Given(c) ==
    IF c.op = "add_global_attribute" THEN [n \in {c.arg.s} |-> c.value]
    ELSE GlobalAttributeData(c.arg.s)

\* a step of load_global_attributes or add_global_attribute: a scalar the call
\* defines is the stored value afterwards, a name the call does not define
\* keeps its value or stays absent
LastOperationWins ==
    (/\ ncalls' = ncalls + 1
     /\ call'.op \in {"load_global_attributes", "add_global_attribute"}) =>
        \A n \in DOMAIN Given(call') \cup DOMAIN _global_attributes
                                     \cup DOMAIN _global_attributes' :
            IF n \in DOMAIN Given(call')
            THEN IsScalar(Given(call')[n]) =>
                    /\ n \in DOMAIN _global_attributes'
                    /\ _global_attributes'[n] = Given(call')[n]
            ELSE /\ n \in DOMAIN _global_attributes
                 /\ n \in DOMAIN _global_attributes'
                 /\ _global_attributes'[n] = _global_attributes[n]

\* before the first call the stored value of a name is its schema default
StartsFromDefaults ==
    (pc = "ready" /\ ncalls = 0) =>
        \A n \in DOMAIN _global_attributes :
            /\ n \in DOMAIN _global_attr_schema
            /\ _global_attributes[n] = _global_attr_schema[n].d["default"]

\* C15: after any sequence of load_global_attributes and add_global_attribute
\* calls the stored top-level value of a scalar attribute is the one given by
\* the most recent call that defined it, or its schema default if no call
\* defined it; values defined only by earlier calls are carried over unchanged.
C15_LastOperationWins ==
    /\ []StartsFromDefaults
    /\ [][LastOperationWins]_vars

\* a value loaded first and added afterwards, next to one carried over from
\* the load and one that is still the schema default
C15_Witness ==
    /\ call.op = "add_global_attribute"
    /\ call.arg = Str("Descriptor")
    /\ ncalls = 2
    /\ _global_attributes["Descriptor"] = call.value
    /\ "Data_type" \in DOMAIN _global_attributes
    /\ _global_attributes["Data_type"] = Str("dt2")
    /\ _global_attributes["Project"] = Str("p2")
    /\ _global_attr_schema["Project"].d["default"] = Str("p0")

\* C16: after any sequence of load_global_attributes and add_global_attribute
\* calls, every key of the mapping returned by get_global_attributes is the
\* name of a global schema entry; a value stored under another name, an
\* instrument id included, is not part of the output.
C16_OutputKeysInSchema ==
    (GotGlobal /\ error = "none") =>
        DOMAIN result.d \subseteq DOMAIN _global_attr_schema

\* values are stored under a name the schema does not have and under an
\* instrument id, and the output has neither
C16_Witness ==
    /\ GotGlobal
    /\ error = "none"
    /\ call.arg = Str("imap_test_T1_test")
    /\ {"bad_name", "imap_test_T1_test"} \subseteq DOMAIN _global_attributes
    /\ IsDict(_global_attributes["imap_test_T1_test"])
    /\ {"bad_name", "imap_test_T1_test"} \cap DOMAIN _global_attr_schema = {}
    /\ {"bad_name", "imap_test_T1_test"} \cap DOMAIN result.d = {}
    /\ DOMAIN result.d # {}

\* C17: immediately after construction the global attribute values
\* (CdfAttributeManager._global_attributes, SWxSchema.default_global_attributes)
\* are exactly name -> default for the global schema entries whose default is
\* not null; entries with a null default are not seeded.
C17_SeededDefaults ==
    pc = "ready" =>
        /\ DOMAIN _global_attributes \subseteq DOMAIN _global_attr_schema
        /\ \A n \in DOMAIN _global_attr_schema :
            IF _global_attr_schema[n].d["default"] = None
            THEN n \notin DOMAIN _global_attributes
            ELSE /\ n \in DOMAIN _global_attributes
                 /\ _global_attributes[n] = _global_attr_schema[n].d["default"]

\* a layer has set the default of Project to null: Project is not seeded,
\* Mission is
C17_Witness ==
    /\ pc = "ready"
    /\ call.op = "__init__"
    /\ {"Project", "Mission"} \subseteq DOMAIN _global_attr_schema
    /\ _global_attr_schema["Project"].d["default"] = None
    /\ "Project" \notin DOMAIN _global_attributes
    /\ _global_attributes["Mission"] = Str("m0")

---------------------------------------------------------------------------
(* Properties of the templates and info functions *)

\* C18: variable_attribute_template() of a CdfAttributeManager and
\* measurement_attribute_template() of a SWxSchema return exactly the variable
\* schema entries whose required field is true, each mapped to None, whatever
\* variable values are loaded.
C18_VariableTemplate ==
    Returned("variable_attribute_template") =>
        result = Dict([n \in RequiredAttributes |-> None])

\* the template is asked for after variable values were loaded: it has the
\* required entries, not the optional ones, and none of the loaded values
C18_Witness ==
    /\ Returned("variable_attribute_template")
    /\ "test_field_1" \in DOMAIN _variable_attributes
    /\ "CATDESC" \in DOMAIN result.d
    /\ result.d["CATDESC"] = None
    /\ "DEPEND_i" \in DOMAIN _variable_attr_schema["attribute_key"].d
    /\ "DEPEND_i" \notin DOMAIN result.d

\* the entries an info function looks attribute names up in, before the call
InfoSchema(op) ==
    IF op = "global_attribute_info" THEN _global_attr_schema
    ELSE _variable_attr_schema["attribute_key"].d

\* record is the entry: every field of the entry with its value, the
\* description without surrounding whitespace
RecordOf(record, entry) ==
    /\ IsDict(record)
    /\ \A field \in DOMAIN entry.d :
        /\ field \in DOMAIN record.d
        /\ IF field = "description"
           THEN record.d[field] = Str(Strip(entry.d[field].s))
           ELSE field # "var_types" => record.d[field] = entry.d[field]

\* a call of an info function with a non-empty name: KeyError when the name
\* is no entry, the record of the entry when it is (the one row of the table
\* for a SWxSchema)
InfoLookup ==
    (/\ call'.op \in {"global_attribute_info", "variable_attribute_info"}
     /\ Truthy(call'.arg)) =>
        IF call'.arg.s \in DOMAIN InfoSchema(call'.op)
        THEN /\ error' = "none"
             /\ IF args.cls = "SWxSchema"
                THEN /\ DOMAIN result'.t = {call'.arg.s}
                     /\ RecordOf(result'.t[call'.arg.s],
                                 InfoSchema(call'.op)[call'.arg.s])
                ELSE RecordOf(result', InfoSchema(call'.op)[call'.arg.s])
        ELSE /\ error' = "KeyError"
             /\ result' = None

\* C19: global_attribute_info(attribute_name) and
\* variable_attribute_info(attribute_name) raise KeyError when a non-empty
\* attribute_name is not an entry of the respective schema, and return that
\* entry's record when it is.
C19_InfoLookup == [][InfoLookup]_vars

\* a name of the global schema that is no variable attribute is asked of
\* variable_attribute_info
C19_Witness ==
    /\ call.op = "variable_attribute_info"
    /\ call.arg = Str("Descriptor")
    /\ "Descriptor" \in DOMAIN _global_attr_schema
    /\ "Descriptor" \notin DOMAIN _variable_attr_schema["attribute_key"].d
    /\ error = "KeyError"
    /\ result = None

---------------------------------------------------------------------------
(* Properties of CDFValidator *)

\* the request of the last call was sent and failed
RequestFailed ==
    /\ call.arg = Str("file")
    /\ call.value.d["outcome"] \in {Str("ConnectionError"), Str("HTTPError")}

\* C20: CDFValidator.validate never raises: for every path and every outcome
\* of the request it returns a list of strings, and when the request fails
\* (connection error or error status) the list has exactly one element, which
\* contains 'API request failed'.
C20_ValidateNeverRaises ==
    call.op = "validate" =>
        /\ error = "none"
        /\ IsList(result)
        /\ RequestFailed =>
              /\ Len(result.l) = 1
              /\ Contains("API request failed", result.l[1])

\* the service answers with an error status
C20_Witness ==
    /\ call.op = "validate"
    /\ RequestFailed
    /\ call.value.d["outcome"] = Str("HTTPError")
    /\ error = "none"
    /\ result = List(<<"API request failed: 500 Server Error">>)

---------------------------------------------------------------------------
(* Properties of _merge *)

\* a step of self._merge of an object of class cls: result is base_layer
\* before and result' afterwards, call'.value is new_layer
MergedBy(cls) == args'.cls = cls /\ ncalls' = ncalls + 1 /\ call'.op = "_merge"

\* after is before extended by overlay wherever both hold a sequence under
\* the same key, one level down included
RECURSIVE ListsExtended(_, _, _)
ListsExtended(before, overlay, after) ==
    \A k \in DOMAIN before \cap DOMAIN overlay :
        /\ (IsList(before[k]) /\ IsList(overlay[k])) =>
              /\ after[k] = List(before[k].l \o overlay[k].l)
              /\ Len(after[k].l) = Len(before[k].l) + Len(overlay[k].l)
        /\ (IsDict(before[k]) /\ IsDict(overlay[k])) =>
              /\ IsDict(after[k])
              /\ ListsExtended(before[k].d, overlay[k].d, after[k].d)

\* the bucket var_type of the layers, one after the other
RECURSIVE BucketOver(_, _)
BucketOver(layers, var_type) ==
    IF Len(layers) = 0 THEN <<>>
    ELSE (IF var_type \in DOMAIN Head(layers) THEN Head(layers)[var_type].l ELSE <<>>)
         \o BucketOver(Tail(layers), var_type)

\* the buckets of the variable schema a CdfAttributeManager builds from any
\* layers are the buckets of the layers in layer order
BucketsConcatenate ==
    \A use_defaults \in {Bool(TRUE), Bool(FALSE)},
       schema_layers \in LayerLists(VariableLayerFiles, MaxLayers) :
        LET layers == VariableLayers(use_defaults, schema_layers)
            schema == MergeLayers("CdfAttributeManager", EmptyDict, layers)
        IN  \A var_type \in Range(Buckets) :
                IF \E i \in 1..Len(layers) : var_type \in DOMAIN layers[i]
                THEN /\ var_type \in DOMAIN schema
                     /\ schema[var_type] = List(BucketOver(layers, var_type))
                ELSE var_type \notin DOMAIN schema

\* C21: for a key present in both base and overlay whose values are both
\* sequences, CdfAttributeManager._merge leaves base[k] equal to the old base
\* sequence followed by the overlay sequence, its length being the sum of the
\* two lengths, duplicates kept; each bucket (data, support_data, metadata) of
\* a constructed schema is the concatenation of that bucket over all layers in
\* layer order.
C21_SequencesConcatenate ==
    /\ [][MergedBy("CdfAttributeManager") =>
             ListsExtended(result.d, call'.value.d, result'.d)]_vars
    /\ []BucketsConcatenate

\* a sequence is extended by an equal one, under a nested key
C21_Witness ==
    /\ call.op = "_merge"
    /\ args.cls = "CdfAttributeManager"
    /\ ncalls = 1
    /\ "a" \in DOMAIN call.arg.d
    /\ "a" \in DOMAIN call.value.d
    /\ IsDict(call.arg.d["a"])
    /\ IsDict(call.value.d["a"])
    /\ "c" \in DOMAIN call.arg.d["a"].d
    /\ "c" \in DOMAIN call.value.d["a"].d
    /\ call.arg.d["a"].d["c"] = List(<<"p">>)
    /\ call.value.d["a"].d["c"] = List(<<"p">>)
    /\ result.d["a"].d["c"] = List(<<"p", "p">>)

\* mapping has no sequence, nested mappings included
RECURSIVE NoSequences(_)
NoSequences(mapping) ==
    \A k \in DOMAIN mapping :
        /\ ~IsList(mapping[k])
        /\ IsDict(mapping[k]) => NoSequences(mapping[k].d)

\* C22: CdfAttributeManager._merge is idempotent on mappings without
\* sequences: for a base and an overlay built from scalars and nested
\* mappings only, merging the overlay into the base a second time leaves the
\* base equal to the result of the first merge.
C22_MergeIdempotent ==
    [][(/\ pc = "merged"
        /\ pc' = "merged again"
        /\ args.cls = "CdfAttributeManager"
        /\ NoSequences(call.arg.d)
        /\ NoSequences(call.value.d)) => result' = result]_vars

\* a nested mapping was merged twice into one that it overrides in part
C22_Witness ==
    /\ pc = "merged again"
    /\ args.cls = "CdfAttributeManager"
    /\ call.arg = Dict([a |-> Dict([c |-> Str("x"), d |-> Str("y")])])
    /\ call.value = Dict([a |-> Dict([c |-> Str("y")])])
    /\ result = Dict([a |-> Dict([c |-> Str("y"), d |-> Str("y")])])

\* key contains DEPEND, LABL_PTR or REPRESENTATION
FamilyMember(key) ==
    \E marker \in {"DEPEND", "LABL_PTR", "REPRESENTATION"} : Contains(marker, key)

\* C23: for a loaded variable, every key in the output of
\* get_variable_attributes(check_schema=True) is a name of the variable
\* schema's attribute_key or a stored key containing DEPEND, LABL_PTR or
\* REPRESENTATION; a schema attribute that is not required and not stored is
\* absent from the output, and a stored attribute that is neither in the schema
\* nor a family member is not in the output.
C23_OutputKeys ==
    (GotVariable(TRUE) /\ LoadedVariable /\ error = "none") =>
        LET schema == _variable_attr_schema["attribute_key"].d
        IN  /\ \A key \in DOMAIN result.d :
                \/ key \in DOMAIN schema
                \/ key \in DOMAIN StoredOfCall /\ FamilyMember(key)
            /\ \A a \in DOMAIN schema :
                (~Truthy(schema[a].d["required"]) /\ a \notin DOMAIN StoredOfCall)
                    => a \notin DOMAIN result.d
            /\ \A key \in DOMAIN StoredOfCall :
                (key \notin DOMAIN schema /\ ~FamilyMember(key))
                    => key \notin DOMAIN result.d

\* test_field_1 stores NOT_IN_SCHEMA and no SI_CONVERSION, which the schema
\* does not require: neither is in the output, DEPEND_1 of the family is
C23_Witness ==
    /\ GotVariable(TRUE)
    /\ LoadedVariable
    /\ error = "none"
    /\ call.arg = Str("test_field_1")
    /\ "NOT_IN_SCHEMA" \in DOMAIN StoredOfCall
    /\ "NOT_IN_SCHEMA" \notin DOMAIN result.d
    /\ "SI_CONVERSION" \in DOMAIN _variable_attr_schema["attribute_key"].d
    /\ "SI_CONVERSION" \notin DOMAIN StoredOfCall
    /\ "SI_CONVERSION" \notin DOMAIN result.d
    /\ "DEPEND_1" \notin DOMAIN _variable_attr_schema["attribute_key"].d
    /\ result.d["DEPEND_1"] = Str("test_depend_1")

---------------------------------------------------------------------------
(* Properties of the global defaults *)

\* the global schema entries whose default is not null
EntriesWithDefault ==
    {n \in DOMAIN _global_attr_schema :
        /\ "default" \in DOMAIN _global_attr_schema[n].d
        /\ _global_attr_schema[n].d["default"] # None}

\* C24: for every global schema entry that has a non-null default,
\* get_global_attributes(instrument_id) returns the top-level value (the
\* default, or what a later top-level load or add put there) even when the
\* mapping stored under instrument_id defines that attribute; the instrument's
\* value is returned only for an attribute without a top-level value.
C24_DefaultBeatsInstrument ==
    (GotGlobal /\ error = "none") =>
        /\ \A n \in EntriesWithDefault :
            /\ n \in DOMAIN _global_attributes
            /\ n \in DOMAIN result.d
            /\ result.d[n] = _global_attributes[n]
        /\ \A n \in DOMAIN result.d \cap DOMAIN _global_attributes :
            result.d[n] = _global_attributes[n]

\* Project keeps its default p0 at the top level, the instrument's mapping
\* gives it another value, and the call returns p0
C24_Witness ==
    /\ GotGlobal
    /\ error = "none"
    /\ LoadedInstrument(call.arg)
    /\ "Project" \in EntriesWithDefault
    /\ _global_attr_schema["Project"].d["default"] = Str("p0")
    /\ InstrumentHas(call.arg, "Project")
    /\ _global_attributes[call.arg.s].d["Project"] # Str("p0")
    /\ result.d["Project"] = Str("p0")

\* the required global entries without a top-level stored value
RequiredUnfilled ==
    {n \in DOMAIN _global_attr_schema :
        /\ Truthy(_global_attr_schema[n].d["required"])
        /\ n \notin DOMAIN _global_attributes}

\* global_attribute_template() of a CdfAttributeManager has returned exactly
\* the required entries without a top-level stored value
TemplateIsUnfilled ==
    (Returned("global_attribute_template") /\ args.cls = "CdfAttributeManager") =>
        DOMAIN result.d = RequiredUnfilled

\* get_global_attributes() called right after global_attribute_template()
\* returns, with None for every key of the template
TemplateKeysAreNone ==
    (/\ Returned("global_attribute_template")
     /\ args.cls = "CdfAttributeManager"
     /\ call'.op = "get_global_attributes"
     /\ call'.arg = None) =>
        /\ error' = "none"
        /\ \A n \in DOMAIN result.d :
            /\ n \in DOMAIN result'.d
            /\ result'.d[n] = None

\* C25: after any sequence of load_global_attributes and add_global_attribute
\* calls, the keys of global_attribute_template() are exactly the required
\* global schema entries that have no top-level stored value, and each of them
\* appears with value None in get_global_attributes() called without an
\* instrument id.
C25_TemplateIsUnfilled ==
    /\ []TemplateIsUnfilled
    /\ [][TemplateKeysAreNone]_vars

\* after a load and an add, Descriptor has a value and is not in the template,
\* test_attribute has none and is
C25_Witness ==
    /\ Returned("global_attribute_template")
    /\ args.cls = "CdfAttributeManager"
    /\ ncalls = 2
    /\ Truthy(_global_attr_schema["Descriptor"].d["required"])
    /\ _global_attr_schema["Descriptor"].d["default"] = None
    /\ "Descriptor" \in DOMAIN _global_attributes
    /\ "imap_test_T1_test" \in DOMAIN _global_attributes
    /\ "Descriptor" \notin DOMAIN result.d
    /\ "test_attribute" \in DOMAIN result.d
    /\ GetGlobalOutput(None)["test_attribute"] = None

\* the class whose _merge did not run
OtherClass == IF args.cls = "SWxSchema" THEN "CdfAttributeManager" ELSE "SWxSchema"

\* C26: SWxSchema._merge and CdfAttributeManager._merge are equivalent: for
\* every base mapping and overlay mapping (scalars, nested mappings,
\* sequences), the base that one of them leaves and returns is the base that
\* the other leaves and returns.
C26_MergesAgree ==
    pc = "merged" => result = Dict(Merge(OtherClass, call.arg.d, call.value.d))

\* C27: when validation passes and every layer parses, construction of
\* CdfAttributeManager / SWxSchema completes without error even if a global
\* layer introduces an entry that has no `default` field, and such an entry is
\* treated as having no default value: it gets no seeded value.
C27_NoDefaultField ==
    SchemasBuilt =>
        /\ pc = "ready"
        /\ error = "none"
        /\ \A n \in DOMAIN _global_attr_schema :
            "default" \notin DOMAIN _global_attr_schema[n].d =>
                n \notin DOMAIN _global_attributes

---------------------------------------------------------------------------
(* Properties of _parse_errors *)

\* validate(cdf_path) got a report from the service and parsed it
ParsedReport ==
    /\ call.op = "validate"
    /\ call.arg = Str("file")
    /\ call.value.d["outcome"] = Str("ok")

\* the lines of the report of the last call
LinesOfCall == SplitLines(call.value.d["content"].s)

IsHeader(line) ==
    \/ Contains("Global errors:", line)
    \/ Contains("The following variables are not ISTP-compliant", line)

Blank(line) == Strip(line) = ""

\* a section is open when line i of q is read: a header precedes it and no
\* blank line lies between the two
OpenBefore(q, i) ==
    \E j \in 1..(i - 1) :
        /\ IsHeader(q[j])
        /\ \A k \in (j + 1)..(i - 1) : ~Blank(q[k])

\* the messages of the lines from i on that may be reported: read while a
\* section is open, not blank, no header, without 'Warning'
RECURSIVE Reportable(_, _)
Reportable(q, i) ==
    IF i > Len(q) THEN <<>>
    ELSE (IF /\ OpenBefore(q, i)
             /\ ~Blank(q[i])
             /\ ~IsHeader(q[i])
             /\ ~Contains("Warning", q[i])
          THEN <<Strip(q[i])>>
          ELSE <<>>) \o Reportable(q, i + 1)

\* every entry ends with ': ' and a message of its own among messages, in
\* the order of the messages
RECURSIVE ReportedFrom(_, _)
ReportedFrom(entries, messages) ==
    IF Len(entries) = 0 THEN TRUE
    ELSE IF Len(messages) = 0 THEN FALSE
    ELSE \/ /\ EndsWith(Head(entries), ": " \o Head(messages))
            /\ ReportedFrom(Tail(entries), Tail(messages))
         \/ ReportedFrom(entries, Tail(messages))

\* C28: _parse_errors reports a line only while a section is open: a section
\* opens at a line containing 'Global errors:' or 'The following variables are
\* not ISTP-compliant', a blank line closes it, and a non-blank line before the
\* first header or between a blank line and the next header produces no entry;
\* header lines and lines containing 'Warning' are never reported.
C28_ReportedWhileOpen ==
    ParsedReport => ReportedFrom(result.l, Reportable(LinesOfCall, 1))

\* the greatest element of a set of line numbers, 0 for the empty set
Latest(S) == IF S = {} THEN 0 ELSE CHOOSE j \in S : \A k \in S : k <= j

\* a variable-name line: it starts with exactly one tab
VariableNameLine(line) == StartsWith(line, "\t") /\ ~StartsWith(line, "\t\t")

\* the header that opened the section line i of q is read in, 0 if there is
\* none
HeaderBefore(q, i) == Latest({j \in 1..(i - 1) : IsHeader(q[j])})

\* line i of q is read inside the variables section: the last header before it
\* is the one of the variables, and no line since has closed the section
InVariables(q, i) ==
    LET h == HeaderBefore(q, i)
    IN  /\ h > 0
        /\ ~Contains("Global errors:", q[h])
        /\ \A k \in (h + 1)..(i - 1) : Blank(q[k]) => VariableNameLine(q[k])

\* the variable an error on line i of q belongs to: the name on the most
\* recent variable-name line of the section, "" when the section has had none
\* or a blank line has been read since
VariableBefore(q, i) ==
    LET v == Latest({j \in (HeaderBefore(q, i) + 1)..(i - 1) :
                        VariableNameLine(q[j]) \/ Blank(q[j])})
    IN  IF v = 0 THEN "" ELSE Strip(q[v])

\* line i of q is an error line of the variables section
VariableErrorLine(q, i) ==
    /\ InVariables(q, i)
    /\ ~IsHeader(q[i])
    /\ ~VariableNameLine(q[i])
    /\ ~Blank(q[i])
    /\ ~Contains("Warning", q[i])

\* the entries of the error lines of the variables section from line i on
RECURSIVE VariableEntries(_, _)
VariableEntries(q, i) ==
    IF i > Len(q) THEN <<>>
    ELSE (IF VariableErrorLine(q, i)
          THEN <<IF VariableBefore(q, i) # ""
                 THEN VariableBefore(q, i) \o ":: " \o Strip(q[i])
                 ELSE "Variable: " \o Strip(q[i])>>
          ELSE <<>>) \o VariableEntries(q, i + 1)

\* the entries that are not those of the global section
NotGlobal(e) == ~StartsWith(e, "Global errors: ")

---------------------------------------------------------------------------
(* Properties of the DEPEND family *)

\* the last call took the DEPEND_i case of the loop: DEPEND_i is in the schema
\* and the variable stores nothing under that name
DependCaseTaken ==
    /\ GotVariable(TRUE)
    /\ LoadedVariable
    /\ error = "none"
    /\ "DEPEND_i" \in DOMAIN _variable_attr_schema["attribute_key"].d
    /\ "DEPEND_i" \notin DOMAIN StoredOfCall

===========================================================================
